---- MODULE Spec2Model ----
(***************************************************************************)
(* Data-access layer of surreal_demo_ts: the process-wide connection       *)
(* manager (initSurrealDB / getSurrealDB / closeSurrealDB) and the generic *)
(* CRUD service SurrealService in its two copies, src/models/db/surreal.ts *)
(* ("db") and src/utils/surreal.ts ("utils"), over an abstract store.      *)
(***************************************************************************)
EXTENDS Integers, Sequences, FiniteSets, TLC

VARIABLES
    dbInstance,   \* let dbInstance: Surreal | null
    conn,         \* state of every Surreal object created by getDb
    pc,           \* position of each caller inside initSurrealDB / closeSurrealDB
    handle,       \* the local `db` (getDb) or the handle being closed, per caller
    svcDb,        \* this.db captured by the last constructed SurrealService
    cev,          \* the last connection-manager event and what it returned
    initState,    \* outcome of the last completed init / close call
    client,       \* which surrealdb client library answers: "legacy" or "v1"
    impl,         \* which copy of SurrealService is in use: "db" or "utils"
    store,        \* the remote database: store[table][key] is a row
    last,         \* the last service call: its arguments, what it returned,
                  \* the row it found, and the write it follows
    batch,        \* the last addMany / createMany / updateMany call: its members,
                  \* how far each has got, and what Promise.all made of them
    inflight      \* per caller, the upsert or paginate call it is inside: what
                  \* the call has read so far

connVars == <<dbInstance, conn, pc, handle, svcDb, cev, initState>>
crudVars == <<client, impl, store, last, batch, inflight>>

vars == <<connVars, crudVars>>

----------------------------------------------------------------------------
(* Bounds *)

\* number of callers that may be inside the connection manager at once
MaxCallers == 2
\* number of Surreal objects getDb may create in one run
MaxConns == 2

\* number of record keys the store may assign in one table
MaxKeys == 2

\* number of rows a table may hold when it is paged through
MaxRows == 5
\* most members of one addMany / createMany / updateMany call
MaxBatch == 2
\* largest page number and page size passed to paginate
MaxPage == 3
\* longest LIKE pattern passed in a condition triple
MaxPatternLen == 3

Callers == 1..MaxCallers
ConnIds == 1..MaxConns
\* the keys the store may assign, and those among them used by the calls
\* that address single records
AllKeys == 1..(IF MaxRows > MaxKeys THEN MaxRows ELSE MaxKeys)
Keys == 1..MaxKeys

----------------------------------------------------------------------------
(* Connection manager *)

\* dbInstance = null: no handle (handles are the numbers of ConnIds)
Null == 0

\* what a call produced: a handle, nothing yet, nothing at all, or a thrown error
Returned(h) == [tag |-> "handle", h |-> h]
Pending == [tag |-> "pending", h |-> Null]
Void == [tag |-> "void", h |-> Null]
NotInitialized == [tag |-> "Error: not initialized", h |-> Null]
ConnectionError == [tag |-> "Error: connect failed", h |-> Null]

isSurrealDBInitialized == dbInstance # Null

\* the value getSurrealDB() produces in the current state
getSurrealDB == IF dbInstance = Null THEN NotInitialized ELSE Returned(dbInstance)

\* the Surreal objects created so far in connection table c
Created(c) == {i \in ConnIds : c[i] # "none"}

\* an event of caller p, with the state it started from: the stored handle, the
\* caller's own handle, the connections, and the event that came before it
Event(op, p, ret) ==
    [op |-> op, caller |-> p, pre |-> dbInstance, h |-> handle[p], conn |-> conn,
     ret |-> ret, after |-> cev.op]

\* new Surreal(): the next unused connection object
NewSurreal == CHOOSE c \in ConnIds : conn[c] = "none" /\ \A d \in ConnIds : conn[d] = "none" => c <= d

\* initSurrealDB without its `if (dbInstance) return dbInstance` guard
initSurrealDB_NoGuard(p) ==
    /\ pc[p] = "idle"
    /\ \E c \in ConnIds : conn[c] = "none"
    /\ conn' = [conn EXCEPT ![NewSurreal] = "connecting"]
    /\ handle' = [handle EXCEPT ![p] = NewSurreal]
    /\ pc' = [pc EXCEPT ![p] = "getDb"]
    /\ cev' = Event("initSurrealDB", p, Pending)
    /\ UNCHANGED <<dbInstance, svcDb, initState>>

\* initSurrealDB up to its first await: return the stored handle, or start getDb
initSurrealDB(p) ==
    /\ pc[p] = "idle"
    /\ IF dbInstance # Null
       THEN /\ cev' = Event("initSurrealDB", p, Returned(dbInstance))
            /\ initState' = "ok"
            /\ UNCHANGED <<dbInstance, conn, pc, handle, svcDb>>
       ELSE /\ \E c \in ConnIds : conn[c] = "none"
            /\ conn' = [conn EXCEPT ![NewSurreal] = "connecting"]
            /\ handle' = [handle EXCEPT ![p] = NewSurreal]
            /\ pc' = [pc EXCEPT ![p] = "getDb"]
            /\ cev' = Event("initSurrealDB", p, Pending)
            /\ UNCHANGED <<dbInstance, svcDb, initState>>

\* getDb: await db.connect(...) succeeded
getDb_connect(p) ==
    /\ pc[p] = "getDb"
    /\ conn[handle[p]] = "connecting"
    /\ conn' = [conn EXCEPT ![handle[p]] = "open"]
    /\ cev' = Event("getDb.connect", p, Pending)
    /\ UNCHANGED <<dbInstance, pc, handle, svcDb, initState>>

\* getDb: await db.use(...) succeeded, getDb returns db and initSurrealDB
\* stores it: dbInstance = await getDb(DEFAULT_CONFIG)
getDb_return(p) ==
    /\ pc[p] = "getDb"
    /\ conn[handle[p]] = "open"
    /\ dbInstance' = handle[p]
    /\ pc' = [pc EXCEPT ![p] = "idle"]
    /\ handle' = [handle EXCEPT ![p] = Null]
    /\ cev' = Event("initSurrealDB.return", p, Returned(handle[p]))
    /\ initState' = "ok"
    /\ UNCHANGED <<conn, svcDb>>

\* getDb: connect or use threw; the catch block closes db and rethrows
getDb_catch(p) ==
    /\ pc[p] = "getDb"
    /\ conn' = [conn EXCEPT ![handle[p]] = "closed"]
    /\ pc' = [pc EXCEPT ![p] = "init_catch"]
    /\ cev' = Event("getDb.catch", p, Pending)
    /\ UNCHANGED <<dbInstance, handle, svcDb, initState>>

\* the catch block without `dbInstance = null`
initSurrealDB_catch_NoReset(p) ==
    /\ pc[p] = "init_catch"
    /\ pc' = [pc EXCEPT ![p] = "idle"]
    /\ handle' = [handle EXCEPT ![p] = Null]
    /\ cev' = Event("initSurrealDB.catch", p, ConnectionError)
    /\ initState' = "failed"
    /\ UNCHANGED <<dbInstance, conn, svcDb>>

\* initSurrealDB's catch block: dbInstance = null; throw error
initSurrealDB_catch(p) ==
    /\ pc[p] = "init_catch"
    /\ dbInstance' = Null
    /\ pc' = [pc EXCEPT ![p] = "idle"]
    /\ handle' = [handle EXCEPT ![p] = Null]
    /\ cev' = Event("initSurrealDB.catch", p, ConnectionError)
    /\ initState' = "failed"
    /\ UNCHANGED <<conn, svcDb>>

\* closeSurrealDB up to its await: nothing when no handle is stored
closeSurrealDB(p) ==
    /\ pc[p] = "idle"
    /\ IF dbInstance = Null
       THEN /\ cev' = Event("closeSurrealDB", p, Void)
            /\ initState' = IF initState = "never" THEN "never" ELSE "closed"
            /\ UNCHANGED <<dbInstance, conn, pc, handle, svcDb>>
       ELSE /\ conn' = [conn EXCEPT ![dbInstance] = "closed"]
            /\ handle' = [handle EXCEPT ![p] = dbInstance]
            /\ pc' = [pc EXCEPT ![p] = "close"]
            /\ cev' = Event("closeSurrealDB", p, Pending)
            /\ UNCHANGED <<dbInstance, svcDb, initState>>

\* closeSurrealDB after its await, without `dbInstance = null`
closeSurrealDB_resume_NoReset(p) ==
    /\ pc[p] = "close"
    /\ pc' = [pc EXCEPT ![p] = "idle"]
    /\ handle' = [handle EXCEPT ![p] = Null]
    /\ cev' = Event("closeSurrealDB.return", p, Void)
    /\ initState' = "closed"
    /\ UNCHANGED <<dbInstance, conn, svcDb>>

\* closeSurrealDB after `await dbInstance.close()`: dbInstance = null
closeSurrealDB_resume(p) ==
    /\ pc[p] = "close"
    /\ dbInstance' = Null
    /\ pc' = [pc EXCEPT ![p] = "idle"]
    /\ handle' = [handle EXCEPT ![p] = Null]
    /\ cev' = Event("closeSurrealDB.return", p, Void)
    /\ initState' = "closed"
    /\ UNCHANGED <<conn, svcDb>>

\* new SurrealService(table): this.db = getSurrealDB()
SurrealService_constructor(p) ==
    /\ pc[p] = "idle"
    /\ cev' = Event("new SurrealService", p, getSurrealDB)
    /\ svcDb' = IF dbInstance = Null THEN svcDb ELSE dbInstance
    /\ UNCHANGED <<dbInstance, conn, pc, handle, initState>>




----------------------------------------------------------------------------
(* Values, rows and records *)

\* a field value: a string, a number, or no value at all (the key is not there)
Str(x) == [t |-> "str", s |-> x, n |-> 0, cs |-> <<>>]
Num(x) == [t |-> "num", s |-> "", n |-> x, cs |-> <<>>]
None == [t |-> "none", s |-> "", n |-> 0, cs |-> <<>>]

\* a string given by its characters, where a call looks inside it
Txt(cs) == [t |-> "str", s |-> "", n |-> 0, cs |-> cs]

\* the fields of User, in the order Object.entries lists them
Fields == <<"name", "age">>
NameValues == {Str("a"), Str("b")}
AgeValues == {Num(25), Num(30)}

\* a payload, Partial<T> or field/value mapping: None marks a key not listed
Mappings == [name : NameValues \cup {None}, age : AgeValues \cup {None}]
Payloads == [name : NameValues, age : AgeValues]
IsEmpty(m) == \A i \in DOMAIN Fields : m[Fields[i]] = None

\* the tables of the database, and the table of the service under study
Tables == {"user", "todo"}
Table == "user"

\* the key part of a record id, as text
KeyName(k) == <<"k1", "k2", "k3", "k4", "k5", "k6">>[k]
KeyNames == {KeyName(k) : k \in AllKeys}
KeyOf(name) == CHOOSE k \in AllKeys : KeyName(k) = name

\* an id as the program holds it: a string (a sequence of its parts, so that
\* "user:k1" is <<"user", ":", "k1">> and the bare key "k1" is <<"k1">>), or
\* the client's structured record id {tb, id}
StrId(parts) == [form |-> "string", s |-> parts, tb |-> "", id |-> ""]
Rid(tb, id) == [form |-> "rid", s |-> <<>>, tb |-> tb, id |-> id]
NoId == StrId(<<>>)

\* a stored row, and the absence of one
NoRow == [live |-> FALSE, name |-> None, age |-> None]
Row(m) == [live |-> TRUE, name |-> m.name, age |-> m.age]

\* a record as the program receives it, and the absence of one (null)
NoRecord == [found |-> FALSE, id |-> NoId, name |-> None, age |-> None]
Record(id, row) == [found |-> TRUE, id |-> id, name |-> row.name, age |-> row.age]

----------------------------------------------------------------------------
(* The store and its client, as the service calls them *)

\* the client library: "legacy" answers db.query with {status, result} objects
\* and string ids, "v1" with bare arrays and structured record ids
Clients == {"legacy", "v1"}

\* the id of row k of table tb as the client delivers it
ClientId(tb, k) ==
    IF client = "v1" THEN Rid(tb, KeyName(k)) ELSE StrId(<<tb, ":", KeyName(k)>>)

\* the keys of K in ascending order, from k on
RECURSIVE KeySeq(_, _)
KeySeq(K, k) ==
    IF k \notin AllKeys THEN <<>>
    ELSE (IF k \in K THEN <<k>> ELSE <<>>) \o KeySeq(K, k + 1)

\* the live rows of table tb
Live(st, tb) == {k \in AllKeys : st[tb][k].live}

\* the rows K of table tb as delivered records, in key order
Records(st, tb, K) ==
    [i \in 1..Cardinality(K) |-> Record(ClientId(tb, KeySeq(K, 1)[i]), st[tb][KeySeq(K, 1)[i]])]

\* a record id in statement text: <table> : <key>; anything else selects nothing
IsRecordId(parts) ==
    /\ Len(parts) = 3
    /\ parts[1] \in Tables
    /\ parts[2] = ":"
    /\ parts[3] \in KeyNames

\* SELECT * FROM <recordId>, db.select(<recordId>)
SelectId(st, parts) ==
    IF IsRecordId(parts) /\ st[parts[1]][KeyOf(parts[3])].live
    THEN <<Record(ClientId(parts[1], KeyOf(parts[3])), st[parts[1]][KeyOf(parts[3])])>>
    ELSE <<>>

\* how a request to the store ends: it is answered, it is answered with an
\* error status for its statement ({status: 'ERR', detail}, legacy client
\* only), or the call is rejected
OK == "OK"
ERR == "ERR"
Rejected == "rejected"

\* the answer of db.query for one statement: firstResult
Response(rows) == [wrapped |-> client = "legacy", status |-> OK, rows |-> rows]
ErrResponse == [wrapped |-> TRUE, status |-> ERR, rows |-> <<>>]
HasResult(firstResult) == firstResult.wrapped /\ firstResult.status = OK
IsArray(firstResult) == ~firstResult.wrapped

\* statement text is a sequence of tokens: identifiers, operators, keywords
\* and literals
Ident(x) == [k |-> "ident", s |-> x, v |-> None]
Op(x) == [k |-> "op", s |-> x, v |-> None]
Kw(x) == [k |-> "kw", s |-> x, v |-> None]
Lit(v) == [k |-> "lit", s |-> "", v |-> v]

\* a WHERE clause the store can parse: <field> = <literal> { AND <field> = <literal> }
ValidWhere(w) ==
    /\ Len(w) >= 3
    /\ Len(w) % 4 = 3
    /\ \A i \in DOMAIN w :
           CASE i % 4 = 1 -> w[i].k = "ident" /\ \E j \in DOMAIN Fields : Fields[j] = w[i].s
             [] i % 4 = 2 -> w[i] = Op("=")
             [] i % 4 = 3 -> w[i].k = "lit"
             [] OTHER -> w[i] = Kw("AND")

\* the row satisfies every predicate of the parsed WHERE clause
Satisfies(row, w) ==
    \A i \in DOMAIN w : i % 4 = 1 => row[w[i].s] = w[i + 2].v

\* string::contains, string::starts_with, string::ends_with of the store
Contains(x, y) == \E i \in 0..(Len(x) - Len(y)) : SubSeq(x, i + 1, i + Len(y)) = y
StartsWith(x, y) == Len(y) <= Len(x) /\ SubSeq(x, 1, Len(y)) = y
EndsWith(x, y) == Len(y) <= Len(x) /\ SubSeq(x, Len(x) - Len(y) + 1, Len(x)) = y

\* a predicate in statement text: `<field> <op> <literal>` or `<fn>(<field>,
\* <literal>)`; the literal is one value or a bracketed list of values
Literal(v) == [bracket |-> FALSE, items |-> <<v>>]
ListLiteral(vs) == [bracket |-> TRUE, items |-> vs]
Pred(fn, field, op, arg) == [k |-> "pred", fn |-> fn, field |-> field, op |-> op, arg |-> arg]
Joiner(x) == [k |-> "kw", fn |-> x, field |-> "", op |-> "", arg |-> ListLiteral(<<>>)]

\* <value> <op> <literal> as the store evaluates it; the order operators are
\* used between numbers only
Compare(x, op, arg) ==
    CASE op = "=" -> ~arg.bracket /\ x = arg.items[1]
      [] op = "!=" -> arg.bracket \/ x # arg.items[1]
      [] op = ">" -> x.n > arg.items[1].n
      [] op = ">=" -> x.n >= arg.items[1].n
      [] op = "<" -> x.n < arg.items[1].n
      [] op = "<=" -> x.n <= arg.items[1].n
      [] op = "IN" -> \E i \in DOMAIN arg.items : arg.items[i] = x
      [] op = "NOT IN" -> \A i \in DOMAIN arg.items : arg.items[i] # x
      [] OTHER -> FALSE

HoldsPred(row, p) ==
    CASE p.fn = "" -> Compare(row[p.field], p.op, p.arg)
      [] p.fn = "string::contains" -> Contains(row[p.field].cs, p.arg.items[1].cs)
      [] p.fn = "string::starts_with" -> StartsWith(row[p.field].cs, p.arg.items[1].cs)
      [] p.fn = "string::ends_with" -> EndsWith(row[p.field].cs, p.arg.items[1].cs)
      [] OTHER -> FALSE

\* a WHERE clause of predicates the store can parse: predicates joined by AND
\* or OR, the right side of IN and NOT IN a list
ValidCond(w) ==
    /\ Len(w) % 2 = 1
    /\ \A i \in DOMAIN w :
           IF i % 2 = 1
           THEN /\ w[i].k = "pred"
                /\ w[i].op \in {"IN", "NOT IN"} => w[i].arg.bracket
                /\ w[i].op \in {">", ">=", "<", "<="} => ~w[i].arg.bracket
                /\ w[i].fn # "" => ~w[i].arg.bracket
           ELSE w[i] \in {Joiner("AND"), Joiner("OR")}

\* the value of the clause from predicate i on, AND binding tighter than OR;
\* acc is the conjunction read so far
RECURSIVE HoldsFrom(_, _, _, _)
HoldsFrom(row, w, i, acc) ==
    IF i = Len(w) THEN acc /\ HoldsPred(row, w[i])
    ELSE IF w[i + 1] = Joiner("OR")
         THEN (acc /\ HoldsPred(row, w[i])) \/ HoldsFrom(row, w, i + 2, TRUE)
         ELSE HoldsFrom(row, w, i + 2, acc /\ HoldsPred(row, w[i]))
SatisfiesCond(row, w) == HoldsFrom(row, w, 1, TRUE)

\* a SET list the store can parse: <field> = <literal> { , <field> = <literal> }
ValidSet(u) ==
    /\ Len(u) >= 3
    /\ Len(u) % 4 = 3
    /\ \A i \in DOMAIN u :
           CASE i % 4 = 1 ->
                    u[i].k = "ident" /\ (u[i].s = "id" \/ \E j \in DOMAIN Fields : Fields[j] = u[i].s)
             [] i % 4 = 2 -> u[i] = Op("=")
             [] i % 4 = 3 -> u[i].k = "lit"
             [] OTHER -> u[i] = Op(",")

\* the row after the assignments of a parsed SET list, applied left to right;
\* an assignment to id leaves the record under the id it has (a statement the
\* store refuses instead is a failed call)
RECURSIVE ApplySet(_, _, _)
ApplySet(row, u, i) ==
    IF i > Len(u) THEN row
    ELSE IF u[i].s = "id" THEN ApplySet(row, u, i + 4)
    ELSE ApplySet([row EXCEPT ![u[i].s] = u[i + 2].v], u, i + 4)

\* UPDATE <table> SET <list> WHERE <clause> RETURN AFTER: the store after it
UpdateWhere(st, u, w) ==
    [st EXCEPT ![Table] = [k \in AllKeys |->
        IF @[k].live /\ Satisfies(@[k], w) THEN ApplySet(@[k], u, 1) ELSE @[k]]]

\* UPDATE <recordId> SET <list> RETURN AFTER: the store after it
UpdateSet(st, parts, u) ==
    IF IsRecordId(parts) /\ st[parts[1]][KeyOf(parts[3])].live
    THEN [st EXCEPT ![parts[1]][KeyOf(parts[3])] = ApplySet(@, u, 1)]
    ELSE st

\* db.update(<recordId>, data), UPDATE <recordId> CONTENT data: the row is
\* replaced by data
UpdateContent(st, parts, data) ==
    IF IsRecordId(parts) /\ st[parts[1]][KeyOf(parts[3])].live
    THEN [st EXCEPT ![parts[1]][KeyOf(parts[3])] = Row(data)]
    ELSE st

\* DELETE <recordId>, db.delete(<recordId>): no error when there is no such row
DeleteId(st, parts) ==
    IF IsRecordId(parts)
    THEN [st EXCEPT ![parts[1]][KeyOf(parts[3])] = NoRow]
    ELSE st

\* db.create(table, data) under the key the store assigns
Create(st, tb, k, data) == [st EXCEPT ![tb][k] = Row(data)]

----------------------------------------------------------------------------
(* SurrealService *)

\* what a call produced: a record or null, a list, a boolean, a number, a
\* page, or a thrown error
NoPage == [page |-> 0, pageSize |-> 0, totalPages |-> [t |-> "int", n |-> 0]]
Ret(kind) ==
    [kind |-> kind, rec |-> NoRecord, list |-> <<>>, flag |-> FALSE, num |-> 0,
     err |-> "", pg |-> NoPage]
RetRecord(r) == IF r.found THEN [Ret("record") EXCEPT !.rec = r] ELSE Ret("null")
RetList(l) == [Ret("list") EXCEPT !.list = l]
RetBool(b) == [Ret("boolean") EXCEPT !.flag = b]
Threw(e) == [Ret("threw") EXCEPT !.err = e]
Done(ret, st) == [ret |-> ret, store |-> st]

\* String(id)
IdString(id) == IF id.form = "rid" THEN <<id.tb, ":", id.id>> ELSE id.s

\* !id
Falsy(id) == id.form = "string" /\ id.s = <<>>

\* idStr.includes(':')
Includes(parts, x) == \E i \in DOMAIN parts : parts[i] = x

\* a record id that is given the table prefix whether or not it has one
RecordIdOf_AlwaysPrefix(id) == <<Table, ":">> \o IdString(id)

\* const recordId = idStr.includes(':') ? idStr : `${this.table}:${idStr}`
RecordIdOf(id) ==
    IF Includes(IdString(id), ":") THEN IdString(id) ELSE <<Table, ":">> \o IdString(id)

\* JSON.stringify(value) inside a statement
JSONstringify(v) == IF v.t = "none" THEN Ident("undefined") ELSE Lit(v)

\* Object.entries(m): the listed keys, in order; an instance's own id comes first
Entries(m) ==
    SelectSeq(IF "id" \in DOMAIN m THEN <<"id">> \o Fields ELSE Fields, LAMBDA f : m[f] # None)

\* parts.join(sep)
RECURSIVE Join(_, _)
Join(parts, sep) ==
    IF Len(parts) = 0 THEN <<>>
    ELSE IF Len(parts) = 1 THEN parts[1]
    ELSE parts[1] \o sep \o Join(Tail(parts), sep)

\* buildWhereClause, mapping form: `${key} = ${JSON.stringify(value)}` joined
\* by ' AND '
buildWhereClause(conditions) ==
    Join([i \in 1..Len(Entries(conditions)) |->
             <<Ident(Entries(conditions)[i]), Op("="),
               JSONstringify(conditions[Entries(conditions)[i]])>>],
         <<Kw("AND")>>)

\* a condition triple {field, operator?, value}: no operator is "", the value
\* is one value or an array of values
Scalar(v) == [isArray |-> FALSE, items |-> <<v>>]
Array(vs) == [isArray |-> TRUE, items |-> vs]
Triple(field, operator, value) == [field |-> field, operator |-> operator, value |-> value]

\* JSON.stringify(cond.value)
JSONvalue(value) == IF value.isArray THEN ListLiteral(value.items) ELSE Literal(value.items[1])

\* the LIKE branch with the two one-sided wildcards exchanged
like_Swapped(field, value) ==
    LET pattern == value.items[1].cs
        startsWith == Len(pattern) >= 1 /\ pattern[1] = "%"
        endsWith == Len(pattern) >= 1 /\ pattern[Len(pattern)] = "%"
    IN  IF startsWith /\ endsWith
        THEN Pred("string::contains", field, "",
                  Literal(Txt(SubSeq(pattern, 2, Len(pattern) - 1))))
        ELSE IF startsWith
        THEN Pred("string::starts_with", field, "", Literal(Txt(Tail(pattern))))
        ELSE IF endsWith
        THEN Pred("string::ends_with", field, "",
                  Literal(Txt(SubSeq(pattern, 1, Len(pattern) - 1))))
        ELSE Pred("", field, "=", JSONvalue(value))

\* buildWhereClause, the LIKE branch: pattern = String(cond.value); %x% is
\* contains(slice(1, -1)), %x is ends_with(slice(1)), x% is
\* starts_with(slice(0, -1)), anything else equality with the value
like(field, value) ==
    LET pattern == value.items[1].cs
        startsWith == Len(pattern) >= 1 /\ pattern[1] = "%"
        endsWith == Len(pattern) >= 1 /\ pattern[Len(pattern)] = "%"
    IN  IF startsWith /\ endsWith
        THEN Pred("string::contains", field, "",
                  Literal(Txt(SubSeq(pattern, 2, Len(pattern) - 1))))
        ELSE IF startsWith
        THEN Pred("string::ends_with", field, "", Literal(Txt(Tail(pattern))))
        ELSE IF endsWith
        THEN Pred("string::starts_with", field, "",
                  Literal(Txt(SubSeq(pattern, 1, Len(pattern) - 1))))
        ELSE Pred("", field, "=", JSONvalue(value))

\* buildWhereClause, array form: the predicate of one triple
condition(cond) ==
    LET operator == IF cond.operator = "" THEN "=" ELSE cond.operator
    IN  IF operator \in {"IN", "NOT IN"}
        THEN Pred("", cond.field, operator,
                  ListLiteral(IF cond.value.isArray THEN cond.value.items
                              ELSE <<cond.value.items[1]>>))
        ELSE IF operator = "LIKE" THEN like(cond.field, cond.value)
        ELSE Pred("", cond.field, operator, JSONvalue(cond.value))

\* buildWhereClause with the predicates joined by OR
buildWhereClause_Or(conditions) ==
    Join([i \in DOMAIN conditions |-> <<condition(conditions[i])>>], <<Joiner("OR")>>)

\* buildWhereClause, array form: conditions.map(...).join(' AND ')
buildWhereClause_array(conditions) ==
    Join([i \in DOMAIN conditions |-> <<condition(conditions[i])>>], <<Joiner("AND")>>)

\* the SET list of update: `${key} = ${JSON.stringify(value)}` joined by ', '
updateData(data) ==
    Join([i \in 1..Len(Entries(data)) |->
             <<Ident(Entries(data)[i]), Op("="), JSONstringify(data[Entries(data)[i]])>>],
         <<Op(",")>>)

\* formatRecord: the id as the string `${tb}:${id}`
formatRecord(record) ==
    IF record.found
    THEN [record EXCEPT !.id = StrId(IdString(record.id))]
    ELSE record

\* records.map((r) => this.formatRecord(r))
FormatAll(records) == [i \in DOMAIN records |-> formatRecord(records[i])]

\* add (src/models/db/surreal.ts): db.create, then formatRecord
add(st, data, k, ok) ==
    IF ~ok THEN Done(Threw("StoreError"), st)
    ELSE Done(RetRecord(formatRecord(Record(ClientId(Table, k), Row(data)))),
              Create(st, Table, k, data))

\* create (src/utils/surreal.ts): db.create, the record as delivered
create(st, data, k, ok) ==
    IF ~ok THEN Done(Threw("StoreError"), st)
    ELSE Done(RetRecord(Record(ClientId(Table, k), Row(data))), Create(st, Table, k, data))

\* records[0] ? this.formatRecord(records[0]) : null
FirstFormatted(rows) == IF Len(rows) > 0 THEN RetRecord(formatRecord(rows[1])) ELSE Ret("null")

\* findById that reads the first row of the table, whatever the id
findById_AnyRow(st, id, ok) ==
    IF Falsy(id) \/ ~ok THEN Done(Ret("null"), st)
    ELSE Done(FirstFormatted(Records(st, Table, Live(st, Table))), st)

\* findById (src/models/db/surreal.ts): SELECT * FROM <recordId>
findById(st, id, ok) ==
    IF Falsy(id) THEN Done(Ret("null"), st)
    ELSE IF ~ok THEN Done(Ret("null"), st)
    ELSE LET firstResult == Response(SelectId(st, RecordIdOf(id)))
         IN  IF HasResult(firstResult) THEN Done(FirstFormatted(firstResult.rows), st)
             ELSE IF IsArray(firstResult) THEN Done(FirstFormatted(firstResult.rows), st)
             ELSE Done(Ret("null"), st)

\* findById (src/utils/surreal.ts): db.select(<recordId>), records[0] || null
findById_utils(st, id, ok) ==
    IF Falsy(id) THEN Done(Ret("null"), st)
    ELSE IF ~ok THEN Done(Ret("null"), st)
    ELSE LET records == SelectId(st, RecordIdOf(id))
         IN  Done(IF Len(records) > 0 THEN RetRecord(records[1]) ELSE Ret("null"), st)

\* update whose statement creates the record it does not find
update_Upsert(st, id, data, ok) ==
    IF Falsy(id) THEN Done(Threw("InvalidId"), st)
    ELSE IF ~ok \/ ~ValidSet(updateData(data)) THEN Done(Threw("StoreError"), st)
    ELSE LET parts == RecordIdOf(id)
             made == IF IsRecordId(parts) /\ ~st[parts[1]][KeyOf(parts[3])].live
                     THEN [st EXCEPT ![parts[1]][KeyOf(parts[3])].live = TRUE]
                     ELSE st
             after == UpdateSet(made, parts, updateData(data))
             firstResult == Response(SelectId(after, parts))
         IN  IF HasResult(firstResult) \/ IsArray(firstResult)
             THEN IF Len(firstResult.rows) = 0 THEN Done(Threw("NotFound"), after)
                  ELSE Done(RetRecord(formatRecord(firstResult.rows[1])), after)
             ELSE Done(Threw("NotFound"), after)

\* update (src/models/db/surreal.ts): UPDATE <recordId> SET ... RETURN AFTER
update(st, id, data, ok) ==
    IF Falsy(id) THEN Done(Threw("InvalidId"), st)
    ELSE IF ~ok \/ ~ValidSet(updateData(data)) THEN Done(Threw("StoreError"), st)
    ELSE LET after == UpdateSet(st, RecordIdOf(id), updateData(data))
             firstResult == Response(SelectId(after, RecordIdOf(id)))
         IN  IF HasResult(firstResult) \/ IsArray(firstResult)
             THEN IF Len(firstResult.rows) = 0 THEN Done(Threw("NotFound"), after)
                  ELSE Done(RetRecord(formatRecord(firstResult.rows[1])), after)
             ELSE Done(Threw("NotFound"), after)

\* update (src/utils/surreal.ts): db.update(<recordId>, data)
update_utils(st, id, data, ok) ==
    IF Falsy(id) THEN Done(Threw("InvalidId"), st)
    ELSE IF ~ok THEN Done(Threw("StoreError"), st)
    ELSE LET after == UpdateContent(st, RecordIdOf(id), data)
             records == SelectId(after, RecordIdOf(id))
         IN  IF Len(records) = 0 THEN Done(Threw("NotFound"), after)
             ELSE Done(RetRecord(records[1]), after)

\* upsert that creates the missing record under the id it was given
upsert_ForceId(st, id, data, k, ok) ==
    IF findById(st, id, ok).ret.kind = "record" THEN update(st, id, data, ok)
    ELSE IF IsRecordId(RecordIdOf(id)) THEN add(st, data, KeyOf(RecordIdOf(id)[3]), ok)
    ELSE add(st, data, k, ok)

\* upsert (src/models/db/surreal.ts): update if findById(id) finds a record,
\* else add({...data}); k is the key the store assigns if it comes to that
upsert(st, id, data, k, ok) ==
    IF findById(st, id, ok).ret.kind = "record" THEN update(st, id, data, ok)
    ELSE add(st, data, k, ok)

\* upsert (src/utils/surreal.ts): the same over findById, update and create
upsert_utils(st, id, data, k, ok) ==
    IF findById_utils(st, id, ok).ret.kind = "record" THEN update_utils(st, id, data, ok)
    ELSE create(st, data, k, ok)

\* delete that returns whether a row was there
delete_Existed(st, id, ok) ==
    IF Falsy(id) \/ ok = Rejected THEN Done(RetBool(FALSE), st)
    ELSE IF ok = ERR THEN Done(RetBool(TRUE), st)
    ELSE Done(RetBool(Len(SelectId(st, RecordIdOf(id))) > 0), DeleteId(st, RecordIdOf(id)))

\* delete (src/models/db/surreal.ts): DELETE <recordId>; true unless the call
\* threw, the answer is not looked at
delete(st, id, ok) ==
    IF Falsy(id) THEN Done(RetBool(FALSE), st)
    ELSE IF ok = Rejected THEN Done(RetBool(FALSE), st)
    ELSE IF ok = ERR THEN Done(RetBool(TRUE), st)
    ELSE Done(RetBool(TRUE), DeleteId(st, RecordIdOf(id)))

\* delete (src/utils/surreal.ts): db.delete(<recordId>); true unless it threw
delete_utils(st, id, ok) ==
    IF Falsy(id) THEN Done(RetBool(FALSE), st)
    ELSE IF ok # OK THEN Done(RetBool(FALSE), st)
    ELSE Done(RetBool(TRUE), DeleteId(st, RecordIdOf(id)))

\* SELECT * FROM <table> WHERE <clause>: the matching rows
SelectWhere(st, w) == Records(st, Table, {k \in Live(st, Table) : Satisfies(st[Table][k], w)})

\* findBy with a catch block that returns the empty list
findBy_Swallow(st, conditions, ok) ==
    IF ok = Rejected \/ ~ValidWhere(buildWhereClause(conditions))
    THEN Done(RetList(<<>>), st)
    ELSE LET firstResult == IF ok = ERR THEN ErrResponse
                            ELSE Response(SelectWhere(st, buildWhereClause(conditions)))
         IN  IF HasResult(firstResult) THEN Done(RetList(FormatAll(firstResult.rows)), st)
             ELSE IF IsArray(firstResult) THEN Done(RetList(FormatAll(firstResult.rows)), st)
             ELSE Done(RetList(<<>>), st)

\* findBy (src/models/db/surreal.ts)
findBy(st, conditions, ok) ==
    IF ok = Rejected \/ ~ValidWhere(buildWhereClause(conditions))
    THEN Done(Threw("StoreError"), st)
    ELSE LET firstResult == IF ok = ERR THEN ErrResponse
                            ELSE Response(SelectWhere(st, buildWhereClause(conditions)))
         IN  IF HasResult(firstResult) THEN Done(RetList(FormatAll(firstResult.rows)), st)
             ELSE IF IsArray(firstResult) THEN Done(RetList(FormatAll(firstResult.rows)), st)
             ELSE Done(RetList(<<>>), st)

\* findBy (src/utils/surreal.ts): only a `result` property is looked at
findBy_utils(st, conditions, ok) ==
    IF ok = Rejected \/ ~ValidWhere(buildWhereClause(conditions))
    THEN Done(Threw("StoreError"), st)
    ELSE LET firstResult == IF ok = ERR THEN ErrResponse
                            ELSE Response(SelectWhere(st, buildWhereClause(conditions)))
         IN  IF HasResult(firstResult) THEN Done(RetList(firstResult.rows), st)
             ELSE Done(RetList(<<>>), st)

\* updateBy (src/models/db/surreal.ts): UPDATE <table> SET ... WHERE ... RETURN AFTER
updateBy(st, conditions, data, ok) ==
    IF ~ok \/ ~ValidSet(updateData(data)) \/ ~ValidWhere(buildWhereClause(conditions))
    THEN Done(Threw("StoreError"), st)
    ELSE LET w == buildWhereClause(conditions)
             K == {k \in Live(st, Table) : Satisfies(st[Table][k], w)}
             after == UpdateWhere(st, updateData(data), w)
             firstResult == Response(Records(after, Table, K))
         IN  IF HasResult(firstResult) \/ IsArray(firstResult)
             THEN Done(RetList(FormatAll(firstResult.rows)), after)
             ELSE Done(RetList(<<>>), after)

\* updateBy (src/utils/surreal.ts): only a `result` property is looked at
updateBy_utils(st, conditions, data, ok) ==
    IF ~ok \/ ~ValidSet(updateData(data)) \/ ~ValidWhere(buildWhereClause(conditions))
    THEN Done(Threw("StoreError"), st)
    ELSE LET w == buildWhereClause(conditions)
             K == {k \in Live(st, Table) : Satisfies(st[Table][k], w)}
             after == UpdateWhere(st, updateData(data), w)
             firstResult == Response(Records(after, Table, K))
         IN  IF HasResult(firstResult) THEN Done(RetList(firstResult.rows), after)
             ELSE Done(RetList(<<>>), after)

\* key.startsWith('_'), for the names of an instance's own properties
Underscored(key) == key \in {"_service"}

\* BaseModel.toJSON: the instance's own properties (none of them is a
\* function) that are `id` or do not start with an underscore
toJSON(this) ==
    [key \in {key \in DOMAIN this : key = "id" \/ ~Underscored(key)} |->
        IF key = "id" THEN Txt(IdString(this.id)) ELSE this[key]]

\* Object.assign(this, result): the properties of result copied over this
ObjectAssign(this, result) ==
    [found |-> TRUE, id |-> result.id,
     name |-> IF result.name # None THEN result.name ELSE this.name,
     age |-> IF result.age # None THEN result.age ELSE this.age]

\* an Active-Record update that deletes the record and adds it again
BaseModel_update_Reinsert(st, this, ok) ==
    IF Falsy(this.id) THEN Done(Threw("NoId"), st)
    ELSE LET k == CHOOSE free \in AllKeys : ~st[Table][free].live
             done == add(DeleteId(st, RecordIdOf(this.id)), this, k, ok)
         IN  IF done.ret.kind = "record"
             THEN Done(RetRecord(ObjectAssign(this, done.ret.rec)), done.store)
             ELSE Done(done.ret, st)

\* BaseModel.update: service.update(this.id, this.toJSON()), the result
\* assigned to the instance
BaseModel_update(st, this, ok) ==
    IF Falsy(this.id) THEN Done(Threw("NoId"), st)
    ELSE LET done == update(st, this.id, toJSON(this), ok)
         IN  IF done.ret.kind = "record"
             THEN Done(RetRecord(ObjectAssign(this, done.ret.rec)), done.store)
             ELSE done

\* an instance's public fields as a record
Fieldsof(this) == [found |-> TRUE, id |-> this.id, name |-> this.name, age |-> this.age]

\* an instance whose fields are lost when the call on it fails
InstanceAfter_Reset(this, done) ==
    IF done.ret.kind = "record" THEN done.ret.rec
    ELSE [found |-> TRUE, id |-> NoId, name |-> None, age |-> None]

\* the instance after add(), update() or delete(): Object.assign(this, result)
\* has run if the call returned `this`, and nothing was assigned otherwise
InstanceAfter(this, done) ==
    IF done.ret.kind = "record" THEN done.ret.rec ELSE Fieldsof(this)

\* an Active-Record add that returns the instance without the fields of the
\* record the store created
BaseModel_add_NoAssign(st, this, k, ok) ==
    LET done == add(st, toJSON(this), k, ok)
    IN  IF done.ret.kind = "record" THEN Done(RetRecord(Fieldsof(this)), done.store) ELSE done

\* BaseModel.add: service.add(this.toJSON()), the result assigned to the instance
BaseModel_add(st, this, k, ok) ==
    LET done == add(st, toJSON(this), k, ok)
    IN  IF done.ret.kind = "record"
        THEN Done(RetRecord(ObjectAssign(this, done.ret.rec)), done.store)
        ELSE done

\* BaseModel.delete: false for an instance without id, else service.delete(this.id)
BaseModel_delete(st, this, ok) ==
    IF Falsy(this.id) THEN Done(RetBool(FALSE), st) ELSE delete(st, this.id, ok)

\* findOne (both copies), given what findBy did: results[0] || null, and an
\* error of findBy logged and thrown again
findOne_of(done) ==
    IF done.ret.kind = "threw" THEN done
    ELSE IF Len(done.ret.list) = 0 THEN Done(Ret("null"), done.store)
    ELSE Done(RetRecord(done.ret.list[1]), done.store)

findOne(st, conditions, ok) == findOne_of(findBy(st, conditions, ok))
findOne_utils(st, conditions, ok) == findOne_of(findBy_utils(st, conditions, ok))

\* existsBy (both copies), given what findOne did: record !== null, no catch
existsBy_of(done) ==
    IF done.ret.kind = "threw" THEN done
    ELSE Done(RetBool(done.ret.kind # "null"), done.store)

existsBy(st, conditions, ok) == existsBy_of(findOne(st, conditions, ok))
existsBy_utils(st, conditions, ok) == existsBy_of(findOne_utils(st, conditions, ok))

\* SELECT * FROM <table> WHERE <predicates>: the matching rows
SelectCond(st, w) ==
    Records(st, Table, {k \in Live(st, Table) : SatisfiesCond(st[Table][k], w)})

\* findBy (src/models/db/surreal.ts) called with condition triples
findBy_array(st, conditions, ok) ==
    IF ok = Rejected \/ ~ValidCond(buildWhereClause_array(conditions))
    THEN Done(Threw("StoreError"), st)
    ELSE LET firstResult == IF ok = ERR THEN ErrResponse
                            ELSE Response(SelectCond(st, buildWhereClause_array(conditions)))
         IN  IF HasResult(firstResult) THEN Done(RetList(FormatAll(firstResult.rows)), st)
             ELSE IF IsArray(firstResult) THEN Done(RetList(FormatAll(firstResult.rows)), st)
             ELSE Done(RetList(<<>>), st)

\* findBy (src/utils/surreal.ts) called with condition triples
findBy_utils_array(st, conditions, ok) ==
    IF ok = Rejected \/ ~ValidCond(buildWhereClause_array(conditions))
    THEN Done(Threw("StoreError"), st)
    ELSE LET firstResult == IF ok = ERR THEN ErrResponse
                            ELSE Response(SelectCond(st, buildWhereClause_array(conditions)))
         IN  IF HasResult(firstResult) THEN Done(RetList(firstResult.rows), st)
             ELSE Done(RetList(<<>>), st)

\* findAll (both copies): db.select(<table>), the records as delivered
findAll(st, ok) ==
    IF ~ok THEN Done(Threw("StoreError"), st)
    ELSE Done(RetList(Records(st, Table, Live(st, Table))), st)

\* DELETE FROM <table> [WHERE <clause>]: the store without the rows K
DeleteRows(st, K) == [st EXCEPT ![Table] = [k \in AllKeys |-> IF k \in K THEN NoRow ELSE @[k]]]

\* deleteAll (src/models/db/surreal.ts): DELETE FROM <table>; true unless it threw
deleteAll(st, ok) ==
    IF ~ok THEN Done(RetBool(FALSE), st)
    ELSE Done(RetBool(TRUE), DeleteRows(st, Live(st, Table)))

\* deleteBy (both copies): DELETE FROM <table> WHERE <clause> RETURN BEFORE;
\* the number of rows in the `result` property of the answer, 0 without one
deleteBy(st, conditions, ok) ==
    IF ~ok \/ ~ValidWhere(buildWhereClause(conditions)) THEN Done(Threw("StoreError"), st)
    ELSE LET firstResult == Response(SelectWhere(st, buildWhereClause(conditions)))
             after == DeleteRows(st, {k \in Live(st, Table) :
                                        Satisfies(st[Table][k], buildWhereClause(conditions))})
         IN  IF HasResult(firstResult)
             THEN Done([Ret("number") EXCEPT !.num = Len(firstResult.rows)], after)
             ELSE Done(Ret("number"), after)

\* a JavaScript number that need not be an integer
JsInt(n) == [t |-> "int", n |-> n]
NaN == [t |-> "NaN", n |-> 0]
Infinity == [t |-> "Infinity", n |-> 0]

\* Math.ceil(a / b) for a >= 0
MathCeilDiv(a, b) ==
    IF b = 0 THEN (IF a = 0 THEN NaN ELSE Infinity)
    ELSE IF b > 0 THEN JsInt((a + b - 1) \div b)
    ELSE JsInt(0 - (a \div (0 - b)))

\* a mapping that lists no field
NoData == [name |-> None, age |-> None]

\* conditions?: the argument left out, or a mapping
NoConditions == [given |-> FALSE, m |-> NoData]
Given(m) == [given |-> TRUE, m |-> m]

\* the rows a statement with this optional WHERE clause ranges over
Matching(st, conditions) ==
    IF conditions.given
    THEN {k \in Live(st, Table) : Satisfies(st[Table][k], buildWhereClause(conditions.m))}
    ELSE Live(st, Table)

\* the statement fails to parse: a WHERE keyword with no valid clause after it
BadWhere(conditions) == conditions.given /\ ~ValidWhere(buildWhereClause(conditions.m))

\* SELECT count() FROM <table> [WHERE ...] GROUP ALL: one row with the count,
\* none for an empty selection
CountGroupAll(st, conditions) ==
    IF Matching(st, conditions) = {} THEN <<>>
    ELSE <<Cardinality(Matching(st, conditions))>>

\* SELECT count() FROM <table> [WHERE ...]: one row {count: 1} per record
CountEach(st, conditions) == [i \in 1..Cardinality(Matching(st, conditions)) |-> 1]

\* count whose statement has no GROUP ALL
count_NoGroupAll(st, conditions, ok) ==
    IF ~ok \/ BadWhere(conditions) THEN Threw("StoreError")
    ELSE [Ret("number") EXCEPT
             !.num = IF Len(CountEach(st, conditions)) > 0 THEN CountEach(st, conditions)[1]
                     ELSE 0]

\* count (src/models/db/surreal.ts)
count(st, conditions, ok) ==
    IF ~ok \/ BadWhere(conditions) THEN Threw("StoreError")
    ELSE LET firstResult == Response(CountGroupAll(st, conditions))
             data == IF HasResult(firstResult) THEN firstResult.rows
                     ELSE IF IsArray(firstResult) THEN firstResult.rows ELSE <<>>
         IN  [Ret("number") EXCEPT !.num = IF Len(data) > 0 THEN data[1] ELSE 0]

\* count (src/utils/surreal.ts): no GROUP ALL, only a `result` property is read
count_utils(st, conditions, ok) ==
    IF ~ok \/ BadWhere(conditions) THEN Threw("StoreError")
    ELSE LET firstResult == Response(CountEach(st, conditions))
         IN  [Ret("number") EXCEPT
                 !.num = IF HasResult(firstResult) /\ Len(firstResult.rows) > 0
                         THEN firstResult.rows[1] ELSE 0]

\* SELECT * FROM <table> [WHERE ...] LIMIT <limit> START <start>
SelectPage(st, conditions, limit, start) ==
    LET all == Records(st, Table, Matching(st, conditions))
        to == IF start + limit < Len(all) THEN start + limit ELSE Len(all)
    IN  SubSeq(all, start + 1, to)

\* the store rejects a negative LIMIT or START
BadPage(limit, start) == limit < 0 \/ start < 0

PageOf(data, total, page, pageSize) ==
    [Ret("page") EXCEPT !.list = data, !.num = total,
         !.pg = [page |-> page, pageSize |-> pageSize,
                 totalPages |-> MathCeilDiv(total, pageSize)]]

\* paginate (src/models/db/surreal.ts), called without orderBy
paginate(st, page, pageSize, conditions, ok) ==
    LET offset == (page - 1) * pageSize
        countResult == count(st, conditions, ok)
    IN  IF ~ok \/ BadWhere(conditions) \/ BadPage(pageSize, offset)
           \/ countResult.kind = "threw"
        THEN Threw("StoreError")
        ELSE LET firstResult == Response(SelectPage(st, conditions, pageSize, offset))
                 data == IF HasResult(firstResult) THEN firstResult.rows
                         ELSE IF IsArray(firstResult) THEN firstResult.rows ELSE <<>>
             IN  PageOf(data, countResult.num, page, pageSize)

\* paginate (src/utils/surreal.ts), called without orderBy
paginate_utils(st, page, pageSize, conditions, ok) ==
    LET offset == (page - 1) * pageSize
        countResult == count_utils(st, conditions, ok)
    IN  IF ~ok \/ BadWhere(conditions) \/ BadPage(pageSize, offset)
           \/ countResult.kind = "threw"
        THEN Threw("StoreError")
        ELSE LET firstResult == Response(SelectPage(st, conditions, pageSize, offset))
                 data == IF HasResult(firstResult) THEN firstResult.rows ELSE <<>>
             IN  PageOf(data, countResult.num, page, pageSize)

----------------------------------------------------------------------------
(* Service calls as steps of the program *)

Impls == {"db", "utils"}

\* the ids a caller may pass: `table:key` strings, a bare key, the empty
\* string, and (from a v1 client's results) structured record ids
IdArgs ==
    {StrId(<<Table, ":", KeyName(k)>>) : k \in Keys}
        \cup {StrId(<<KeyName(1)>>), NoId}
        \cup (IF client = "v1" THEN {Rid(Table, KeyName(k)) : k \in Keys} ELSE {})

\* no batch call has been made
NoBatch ==
    [op |-> "none", payloads |-> <<>>, ids |-> <<>>, data |-> NoData, state |-> <<>>,
     results |-> <<>>, flags |-> <<>>, errors |-> <<>>, order |-> <<>>, outcome |-> "idle",
     ret |-> Ret("void")]

\* Promise.all over n promises that have just been created
PromiseAll(n) ==
    [state |-> [i \in 1..n |-> "pending"], results |-> [i \in 1..n |-> NoRecord],
     flags |-> [i \in 1..n |-> FALSE],
     errors |-> [i \in 1..n |-> Ret("void")],
     order |-> <<>>, outcome |-> IF n = 0 THEN "resolved" ELSE "pending",
     ret |-> IF n = 0 THEN RetList(<<>>) ELSE Ret("void")]

\* Promise.all that collects the values in the order the promises are fulfilled
PromiseAll_fulfil_Push(b, i, value) ==
    LET state == [b.state EXCEPT ![i] = "ok"]
        results == [b.results EXCEPT ![Len(b.order) + 1] = value]
        all == \A j \in DOMAIN state : state[j] = "ok"
    IN  [b EXCEPT !.state = state, !.results = results, !.order = Append(@, i),
                  !.outcome = IF @ = "pending" /\ all THEN "resolved" ELSE @,
                  !.ret = IF b.outcome = "pending" /\ all THEN RetList(results) ELSE @]

\* Promise.all when promise i is fulfilled: its value is kept at index i, and
\* the whole is resolved with the values once every promise is fulfilled
PromiseAll_fulfil(b, i, value) ==
    LET state == [b.state EXCEPT ![i] = "ok"]
        results == [b.results EXCEPT ![i] = value]
        all == \A j \in DOMAIN state : state[j] = "ok"
    IN  [b EXCEPT !.state = state, !.results = results, !.order = Append(@, i),
                  !.outcome = IF @ = "pending" /\ all THEN "resolved" ELSE @,
                  !.ret = IF b.outcome = "pending" /\ all THEN RetList(results) ELSE @]

\* Promise.all when promise i is rejected: the whole is rejected with that
\* error unless it is rejected already; the catch of the batch call throws it again
PromiseAll_reject(b, i, error) ==
    [b EXCEPT !.state[i] = "failed", !.errors[i] = error, !.order = Append(@, i),
              !.outcome = IF @ = "pending" THEN "rejected" ELSE @,
              !.ret = IF b.outcome = "pending" THEN error ELSE @]

\* what a completed member call does to the batch
Settle(b, i, done) ==
    IF done.ret.kind = "record" THEN PromiseAll_fulfil(b, i, done.ret.rec)
    ELSE PromiseAll_reject(b, i, done.ret)

\* a member add that undoes the members added before it when it fails
addMany_member_Rollback(st, b, i, k, ok) ==
    LET done == add(st, b.payloads[i], k, ok)
        added == {KeyOf(IdString(b.results[j].id)[3]) : j \in {j \in DOMAIN b.state : b.state[j] = "ok"}}
    IN  [store |-> IF done.ret.kind = "record" THEN done.store ELSE DeleteRows(done.store, added),
         batch |-> Settle(b, i, done)]

\* addMany (src/models/db/surreal.ts): member i, this.add(dataArray[i]), completes
addMany_member(st, b, i, k, ok) ==
    LET done == add(st, b.payloads[i], k, ok)
    IN  [store |-> done.store, batch |-> Settle(b, i, done)]

\* createMany (src/utils/surreal.ts): member i, this.create(dataArray[i]), completes
createMany_member(st, b, i, k, ok) ==
    LET done == create(st, b.payloads[i], k, ok)
    IN  [store |-> done.store, batch |-> Settle(b, i, done)]

\* updateMany (src/models/db/surreal.ts): member i, this.update(ids[i], data), completes
updateMany_member(st, b, i, ok) ==
    LET done == update(st, b.ids[i], b.data, ok)
    IN  [store |-> done.store, batch |-> Settle(b, i, done)]

\* updateMany (src/utils/surreal.ts)
updateMany_utils_member(st, b, i, ok) ==
    LET done == update_utils(st, b.ids[i], b.data, ok)
    IN  [store |-> done.store, batch |-> Settle(b, i, done)]

\* the row a record id addresses
RowAt(st, parts) == IF IsRecordId(parts) THEN st[parts[1]][KeyOf(parts[3])] ELSE NoRow

\* the last write (add, update, delete) whose record a call addresses, with
\* only reads of that record since: its arguments and the row it found
NoChain == [op |-> "-", data |-> NoData, pre |-> NoRow]
Chain(subj) ==
    IF ~IsRecordId(subj) \/ last.subj # subj THEN NoChain
    ELSE IF last.op \in {"add", "update"} /\ last.ret.kind = "record"
         THEN [op |-> last.op, data |-> last.data, pre |-> last.pre]
    ELSE IF last.op = "delete" /\ last.ret = RetBool(TRUE)
         THEN [op |-> last.op, data |-> last.data, pre |-> last.pre]
    ELSE IF last.op = "findById" THEN last.chain
    ELSE NoChain

\* a completed call: its arguments, what it returned, the record it addressed
\* (subj), the row that record had before (pre), the rows it changed, and for
\* a call on an Active-Record instance the instance after it (inst)
NoPageArgs == [page |-> 0, pageSize |-> 0]
Call(op, id, data, subj, done) ==
    [op |-> op, id |-> id, data |-> data, args |-> NoPageArgs, conds |-> <<>>,
     answer |-> OK, ret |-> done.ret,
     subj |-> subj, pre |-> RowAt(store, subj),
     changed |-> {k \in AllKeys : done.store[Table][k] # store[Table][k]},
     chain |-> Chain(subj), inst |-> NoRecord]

Add(data, k, ok) ==
    /\ ~store[Table][k].live
    /\ LET done == IF impl = "db" THEN add(store, data, k, ok) ELSE create(store, data, k, ok)
       IN  /\ store' = done.store
           /\ last' = Call("add", NoId, data,
                           IF done.ret.kind = "record" THEN <<Table, ":", KeyName(k)>> ELSE <<>>,
                           done)
    /\ UNCHANGED <<connVars, inflight, client, impl, batch>>

FindById(id, ok) ==
    /\ LET done == IF impl = "db" THEN findById(store, id, ok) ELSE findById_utils(store, id, ok)
       IN  /\ store' = done.store
           /\ last' = [Call("findById", id, NoData, RecordIdOf(id), done)
                           EXCEPT !.answer = IF ok THEN OK ELSE Rejected]
    /\ UNCHANGED <<connVars, inflight, client, impl, batch>>

Update(id, data, ok) ==
    /\ LET done == IF impl = "db" THEN update(store, id, data, ok)
                   ELSE update_utils(store, id, data, ok)
       IN  /\ store' = done.store
           /\ last' = Call("update", id, data, RecordIdOf(id), done)
    /\ UNCHANGED <<connVars, inflight, client, impl, batch>>

Delete(id, ok) ==
    /\ LET done == IF impl = "db" THEN delete(store, id, ok) ELSE delete_utils(store, id, ok)
       IN  /\ store' = done.store
           /\ last' = [Call("delete", id, NoData, RecordIdOf(id), done) EXCEPT !.answer = ok]
    /\ UNCHANGED <<connVars, inflight, client, impl, batch>>

FindBy(conditions, ok) ==
    /\ LET done == IF impl = "db" THEN findBy(store, conditions, ok)
                   ELSE findBy_utils(store, conditions, ok)
       IN  /\ store' = done.store
           /\ last' = [Call("findBy", NoId, conditions, <<>>, done) EXCEPT !.answer = ok]
    /\ UNCHANGED <<connVars, inflight, client, impl, batch>>

FindOne(conditions, ok) ==
    /\ LET done == IF impl = "db" THEN findOne(store, conditions, ok)
                   ELSE findOne_utils(store, conditions, ok)
       IN  last' = [Call("findOne", NoId, conditions, <<>>, done) EXCEPT !.answer = ok]
    /\ UNCHANGED <<connVars, inflight, client, impl, store, batch>>

ExistsBy(conditions, ok) ==
    /\ LET done == IF impl = "db" THEN existsBy(store, conditions, ok)
                   ELSE existsBy_utils(store, conditions, ok)
       IN  last' = [Call("existsBy", NoId, conditions, <<>>, done) EXCEPT !.answer = ok]
    /\ UNCHANGED <<connVars, inflight, client, impl, store, batch>>

Paginate(page, pageSize, ok) ==
    /\ LET ret == IF impl = "db" THEN paginate(store, page, pageSize, NoConditions, ok)
                  ELSE paginate_utils(store, page, pageSize, NoConditions, ok)
       IN  last' = [Call("paginate", NoId, NoData, <<>>, Done(ret, store))
                       EXCEPT !.args = [page |-> page, pageSize |-> pageSize]]
    /\ UNCHANGED <<connVars, inflight, client, impl, store, batch>>

\* updateBy(conditions, data)
UpdateBy(conditions, data, ok) ==
    /\ LET done == IF impl = "db" THEN updateBy(store, conditions, data, ok)
                   ELSE updateBy_utils(store, conditions, data, ok)
       IN  /\ store' = done.store
           /\ last' = [Call("updateBy", NoId, data, <<>>, done) EXCEPT !.args = NoPageArgs]
    /\ UNCHANGED <<connVars, inflight, client, impl, batch>>

\* user.update() of an Active-Record instance, which uses the service of
\* src/models/db/surreal.ts
ModelUpdate(this, ok) ==
    /\ impl = "db"
    /\ LET done == BaseModel_update(store, this, ok)
       IN  /\ store' = done.store
           /\ last' = [Call("modelUpdate", this.id, [name |-> this.name, age |-> this.age],
                            RecordIdOf(this.id), done)
                           EXCEPT !.answer = IF ok THEN OK ELSE Rejected,
                                  !.inst = InstanceAfter(this, done)]
    /\ UNCHANGED <<connVars, inflight, client, impl, batch>>

\* the members of an updateMany call completing in the given order
RECURSIVE updateMany_run(_, _, _, _, _)
updateMany_run(st, b, order, n, ok) ==
    IF n > Len(order) THEN [store |-> st, batch |-> b]
    ELSE LET step == CHOOSE s \in {IF impl = "db" THEN updateMany_member(st, b, order[n], ok)
                                   ELSE updateMany_utils_member(st, b, order[n], ok)} : TRUE
         IN  updateMany_run(step.store, step.batch, order, n + 1, ok)

\* updateMany(ids, data) from its call to the completion of its last member,
\* with no other call in between
UpdateManyRun(ids, data, order, ok) ==
    /\ LET b == [op |-> "updateMany", payloads |-> <<>>, ids |-> ids, data |-> data]
                    @@ PromiseAll(Len(ids))
       IN  \E run \in {updateMany_run(store, b, order, 1, ok)} :
               /\ store' = run.store
               /\ last' = Call("updateMany", NoId, data, <<>>, Done(run.batch.ret, run.store))
    /\ UNCHANGED <<connVars, inflight, client, impl, batch>>

\* every member of the last batch call has completed
Settled == \A i \in DOMAIN batch.state : batch.state[i] # "pending"

\* addMany / createMany: dataArray.map starts one add per payload, Promise.all
\* waits for them
AddMany(dataArray) ==
    /\ Settled
    /\ batch' = [op |-> "addMany", payloads |-> dataArray, ids |-> <<>>, data |-> NoData]
                    @@ PromiseAll(Len(dataArray))
    /\ UNCHANGED <<connVars, inflight, client, impl, store, last>>

\* updateMany: ids.map starts one update per id, Promise.all waits for them
UpdateMany(ids, data) ==
    /\ Settled
    /\ batch' = [op |-> "updateMany", payloads |-> <<>>, ids |-> ids, data |-> data]
                    @@ PromiseAll(Len(ids))
    /\ UNCHANGED <<connVars, inflight, client, impl, store, last>>

\* the store answers the request of member i of the batch, under key k if it
\* is an add
MemberCompletes(i, k, ok) ==
    /\ i \in DOMAIN batch.state
    /\ batch.state[i] = "pending"
    /\ (batch.op = "addMany" /\ ok) => ~store[Table][k].live
    /\ LET step == CASE batch.op = "addMany" /\ impl = "db" -> addMany_member(store, batch, i, k, ok)
                      [] batch.op = "addMany" /\ impl = "utils" ->
                             createMany_member(store, batch, i, k, ok)
                      [] batch.op = "updateMany" /\ impl = "db" ->
                             updateMany_member(store, batch, i, ok)
                      [] OTHER -> updateMany_utils_member(store, batch, i, ok)
       IN  /\ store' = step.store
           /\ batch' = step.batch
    /\ UNCHANGED <<connVars, inflight, client, impl, last>>

\* findBy called with a list of condition triples
FindByArray(conditions, ok) ==
    /\ LET done == IF impl = "db" THEN findBy_array(store, conditions, ok)
                   ELSE findBy_utils_array(store, conditions, ok)
       IN  last' = [Call("findByArray", NoId, NoData, <<>>, done) EXCEPT !.conds = conditions]
    /\ UNCHANGED <<connVars, inflight, client, impl, store, batch>>

\* the record addressed is the one found by id, or else the one created
Upsert(id, data, k, ok) ==
    /\ ~store[Table][k].live
    /\ LET done == IF impl = "db" THEN upsert(store, id, data, k, ok)
                   ELSE upsert_utils(store, id, data, k, ok)
       IN  /\ store' = done.store
           /\ last' = Call("upsert", id, data,
                           IF RowAt(store, RecordIdOf(id)).live THEN RecordIdOf(id)
                           ELSE <<Table, ":", KeyName(k)>>,
                           done)
    /\ UNCHANGED <<connVars, inflight, client, impl, batch>>

FindAll(ok) ==
    /\ last' = Call("findAll", NoId, NoData, <<>>, findAll(store, ok))
    /\ UNCHANGED <<connVars, inflight, client, impl, store, batch>>

\* count() when conditions is left out, count(conditions) ("countBy") otherwise
Count(conditions, ok) ==
    /\ LET ret == IF impl = "db" THEN count(store, conditions, ok)
                  ELSE count_utils(store, conditions, ok)
       IN  last' = Call(IF conditions.given THEN "countBy" ELSE "count",
                        NoId, conditions.m, <<>>, Done(ret, store))
    /\ UNCHANGED <<connVars, inflight, client, impl, store, batch>>

DeleteAll(ok) ==
    /\ impl = "db"
    /\ store' = deleteAll(store, ok).store
    /\ last' = Call("deleteAll", NoId, NoData, <<>>, deleteAll(store, ok))
    /\ UNCHANGED <<connVars, inflight, client, impl, batch>>

DeleteBy(conditions, ok) ==
    /\ store' = deleteBy(store, conditions, ok).store
    /\ last' = Call("deleteBy", NoId, conditions, <<>>, deleteBy(store, conditions, ok))
    /\ UNCHANGED <<connVars, inflight, client, impl, batch>>

\* a caller that is inside no call
NoFlight ==
    [op |-> "none", pc |-> "idle", id |-> NoId, data |-> NoData, existing |-> FALSE,
     with |-> {}, args |-> NoPageArgs, got |-> {}, list |-> <<>>, kind |-> "void", num |-> 0]

EmptyStore == [tb \in Tables |-> [k \in AllKeys |-> NoRow]]

NoCall ==
    [op |-> "start", id |-> NoId, data |-> NoData, args |-> NoPageArgs, conds |-> <<>>,
     answer |-> OK, ret |-> Ret("void"), subj |-> <<>>,
     pre |-> NoRow, changed |-> {}, chain |-> NoChain, inst |-> NoRecord]

\* the store is empty and no call has been made; either client library and
\* either copy of SurrealService may be the one in use
CrudStart ==
    /\ client \in Clients
    /\ impl \in Impls
    /\ store = EmptyStore
    /\ last = NoCall
    /\ batch = NoBatch
    /\ inflight = [p \in Callers |-> NoFlight]

----------------------------------------------------------------------------
(* Specifications *)

\* before any call of the connection manager
ConnStart ==
    /\ dbInstance = Null
    /\ conn = [c \in ConnIds |-> "none"]
    /\ pc = [p \in Callers |-> "idle"]
    /\ handle = [p \in Callers |-> Null]
    /\ svcDb = Null
    /\ cev = [op |-> "start", caller |-> 1, pre |-> Null, h |-> Null,
              conn |-> [c \in ConnIds |-> "none"], ret |-> Void, after |-> "start"]
    /\ initState = "never"

\* after `await initSurrealDB()` and `new SurrealService('user')`
Connected ==
    /\ dbInstance = 1
    /\ conn = [c \in ConnIds |-> IF c = 1 THEN "open" ELSE "none"]
    /\ pc = [p \in Callers |-> "idle"]
    /\ handle = [p \in Callers |-> Null]
    /\ svcDb = 1
    /\ cev = [op |-> "new SurrealService", caller |-> 1, pre |-> 1, h |-> Null,
              conn |-> [c \in ConnIds |-> IF c = 1 THEN "open" ELSE "none"],
              ret |-> Returned(1), after |-> "initSurrealDB.return"]
    /\ initState = "ok"

ConnInit == ConnStart /\ CrudStart

ConnNext ==
    /\ \E p \in Callers :
        \/ initSurrealDB(p)
        \/ getDb_connect(p)
        \/ getDb_return(p)
        \/ getDb_catch(p)
        \/ initSurrealDB_catch(p)
        \/ closeSurrealDB(p)
        \/ closeSurrealDB_resume(p)
        \/ SurrealService_constructor(p)
    /\ UNCHANGED crudVars

\* the connection manager under concurrent callers
SpecConn == ConnInit /\ [][ConnNext]_vars

Init == Connected /\ CrudStart

\* the payloads and partial payloads of the calls that address single records
AddPayloads == {[name |-> Str("a"), age |-> Num(25)], [name |-> Str("b"), age |-> Num(30)]}
UpdatePayloads == {[name |-> Str("b"), age |-> None], NoData}

Next ==
    \/ \E data \in AddPayloads, k \in Keys : Add(data, k, TRUE)
    \/ \E id \in IdArgs : FindById(id, TRUE)
    \/ \E id \in IdArgs, data \in UpdatePayloads : Update(id, data, TRUE)
    \/ \E id \in IdArgs : Delete(id, OK)

\* one connected service, its single-record calls made one after another
Spec == Init /\ [][Next]_vars

\* the rows and the mappings of the calls that select by condition: rows with
\* every field, and one without an age
QueryPayloads == Payloads \cup {[name |-> Str("a"), age |-> None]}

QueryNext ==
    \/ \E data \in QueryPayloads, k \in Keys : Add(data, k, TRUE)
    \/ \E k \in Keys : Delete(StrId(<<Table, ":", KeyName(k)>>), OK)
    \/ \E conditions \in Mappings : FindBy(conditions, OK)

\* one connected service, selecting by condition between adds and deletes
SpecQuery == Init /\ [][QueryNext]_vars

\* the lists passed to addMany / createMany and to updateMany
PayloadLists == UNION {[1..n -> AddPayloads] : n \in 0..MaxBatch}
IdLists ==
    {ids \in UNION {[1..n -> {StrId(<<Table, ":", KeyName(k)>>) : k \in Keys}] : n \in 1..MaxBatch} :
        \A i, j \in DOMAIN ids : ids[i] = ids[j] => i = j}

BatchNext ==
    \/ \E dataArray \in PayloadLists : AddMany(dataArray)
    \/ \E ids \in IdLists : UpdateMany(ids, [name |-> Str("b"), age |-> None])
    \/ \E i \in 1..MaxBatch, k \in Keys, ok \in BOOLEAN : MemberCompletes(i, k, ok)

\* one connected service making batch calls one after the other, whose members
\* the store answers in any order
SpecBatch == Init /\ [][BatchNext]_vars

\* the orders in which n member calls may complete
Orders(n) == {order \in [1..n -> 1..n] : \A i, j \in 1..n : order[i] = order[j] => i = j}

\* the ids passed to update and held by Active-Record instances: those of the
\* records, and none
RecordIds == {StrId(<<Table, ":", KeyName(k)>>) : k \in Keys} \cup {NoId}

\* Active-Record instances: the id of a record, or none, and the fields set
Instances == {[_service |-> Null, id |-> id, name |-> Str("b"), age |-> Num(30)] : id \in RecordIds}

\* the conditions passed to updateBy and deleteBy: one field, the other field, none
UpdateByConditions ==
    {[name |-> Str("a"), age |-> None], [name |-> None, age |-> Num(30)], NoData}

IdentNext ==
    \/ \E k \in Keys : Add([name |-> Str("a"), age |-> Num(25)], k, TRUE)
    \/ \E id \in RecordIds, data \in {[name |-> Str("b"), age |-> None], NoData} :
           Update(id, data, TRUE)
    \/ \E this \in Instances, ok \in BOOLEAN : ModelUpdate(this, ok)
    \/ \E conditions \in UpdateByConditions : UpdateBy(conditions, [name |-> Str("b"), age |-> None], TRUE)
    \/ \E ids \in IdLists : \E order \in Orders(Len(ids)) :
           UpdateManyRun(ids, [name |-> Str("b"), age |-> None], order, TRUE)

\* one connected service and its Active-Record instances, updating the records
\* added
SpecIdent == Init /\ [][IdentNext]_vars

\* how the store may answer a statement: with its result, with an error-status
\* entry (clients that deliver {status, result} entries), or by a failed call
Answers == IF client = "legacy" THEN {OK, ERR, Rejected} ELSE {OK, Rejected}

FailNext ==
    \/ \E data \in AddPayloads, k \in Keys : Add(data, k, TRUE)
    \/ \E id \in IdArgs, ok \in Answers : Delete(id, ok)
    \/ \E conditions \in Mappings, ok \in Answers : FindBy(conditions, ok)
    \/ \E conditions \in Mappings, ok \in Answers : FindOne(conditions, ok)
    \/ \E conditions \in Mappings, ok \in Answers : ExistsBy(conditions, ok)

\* one connected service whose store may fail the statements of delete and of
\* the calls that select by condition
SpecFail == Init /\ [][FailNext]_vars

\* the characters of LIKE patterns, and the patterns up to MaxPatternLen
Alphabet == {"%", "a"}
Patterns == UNION {[1..n -> Alphabet] : n \in 0..MaxPatternLen}

\* rows whose names share, start with and end with the same characters
CondPayloads ==
    {[name |-> Txt(<<"a", "b">>), age |-> Num(25)], [name |-> Txt(<<"b", "a">>), age |-> Num(30)],
     [name |-> Txt(<<"a", "a">>), age |-> Num(30)]}

\* the triples passed to findBy: LIKE with every pattern, every other operator
\* (and none) with a value, IN and NOT IN with one value and with arrays
LikeTriples == {Triple("name", "LIKE", Scalar(Txt(p))) : p \in Patterns}
CompareTriples ==
    {Triple("age", op, Scalar(v)) : op \in {"", "=", "!=", ">", ">=", "<", "<="}, v \in AgeValues}
        \cup {Triple("name", "", Scalar(Txt(<<"a", "a">>)))}
InTriples ==
    {Triple("age", op, v) :
        op \in {"IN", "NOT IN"},
        v \in {Scalar(Num(25)), Array(<<>>), Array(<<Num(25)>>), Array(<<Num(25), Num(30)>>)}}
PairTriples ==
    {Triple("age", ">=", Scalar(Num(30))), Triple("age", "", Scalar(Num(25))),
     Triple("name", "LIKE", Scalar(Txt(<<"a", "%">>))), Triple("age", "IN", Scalar(Num(30)))}
TripleLists ==
    {<<t>> : t \in LikeTriples \cup CompareTriples \cup InTriples}
        \cup {<<t, u>> : t \in PairTriples, u \in PairTriples}

CondNext ==
    \/ \E data \in CondPayloads, k \in Keys : Add(data, k, TRUE)
    \/ \E k \in Keys : Delete(StrId(<<Table, ":", KeyName(k)>>), OK)
    \/ \E conditions \in TripleLists : FindByArray(conditions, OK)

\* one connected service, selecting by condition triples between adds and deletes
SpecCond == Init /\ [][CondNext]_vars

UpsertNext ==
    \/ \E data \in AddPayloads, k \in Keys : Add(data, k, TRUE)
    \/ \E k \in Keys : Delete(StrId(<<Table, ":", KeyName(k)>>), OK)
    \/ \E id \in IdArgs, k \in Keys,
            data \in {[name |-> Str("a"), age |-> Num(25)], [name |-> Str("b"), age |-> None]} :
           Upsert(id, data, k, TRUE)

\* one connected service, upserting between adds, reads and deletes
SpecUpsert == Init /\ [][UpsertNext]_vars

CountNext ==
    \/ \E data \in AddPayloads \cup {[name |-> Str("a"), age |-> None]}, k \in Keys :
           Add(data, k, TRUE)
    \/ \E k \in Keys : Update(StrId(<<Table, ":", KeyName(k)>>), [name |-> Str("b"), age |-> None], TRUE)
    \/ \E k \in Keys : Delete(StrId(<<Table, ":", KeyName(k)>>), OK)
    \/ DeleteAll(TRUE)
    \/ \E conditions \in UpdateByConditions : DeleteBy(conditions, TRUE)
    \/ \E conditions \in {NoConditions} \cup {Given(m) : m \in Mappings} :
           Count(conditions, TRUE)
    \/ FindAll(TRUE)

\* one connected service, counting and listing its table between writes
SpecCount == Init /\ [][CountNext]_vars

\* the page numbers and page sizes a caller passes; none of them is validated
MinPageArg == 0 - 1
PageArgs == MinPageArg..MaxPage
PagePayload == [name |-> Str("a"), age |-> Num(25)]

PageNext ==
    \/ \E k \in 1..MaxRows : Add(PagePayload, k, TRUE)
    \/ \E k \in 1..MaxRows : Delete(StrId(<<Table, ":", KeyName(k)>>), OK)
    \/ \E page \in PageArgs, pageSize \in PageArgs : Paginate(page, pageSize, TRUE)

\* one connected service, paging through its table between adds and deletes
SpecPage == Init /\ [][PageNext]_vars

----------------------------------------------------------------------------
(* Claims about the connection manager, checked under SpecConn *)

\* no caller is inside initSurrealDB or closeSurrealDB
Quiescent == \A p \in Callers : pc[p] = "idle"

\* C4: whenever a handle is already stored, a call of initSurrealDB returns
\* that same handle, leaves it stored, and creates no new connection object;
\* this holds for every such call of a run, however often it is repeated.
C4_InitIdempotent ==
    (cev.op = "initSurrealDB" /\ cev.pre # Null) =>
        /\ cev.ret = Returned(cev.pre)
        /\ dbInstance = cev.pre
        /\ conn = cev.conn
        /\ Created(conn) = Created(cev.conn)

\* C4 witness: initSurrealDB was called twice in a row with a handle stored
\* and returned it
C4_Witness ==
    /\ cev.op = "initSurrealDB"
    /\ cev.after = "initSurrealDB"
    /\ cev.pre \in ConnIds
    /\ cev.ret = Returned(cev.pre)

\* C5: under every interleaving of initSurrealDB and closeSurrealDB calls no
\* open connection is orphaned: once no call is in progress, every open
\* connection is the stored handle (so at most one connection is open).
C5_NoOrphanedConnection ==
    Quiescent => \A c \in ConnIds : conn[c] = "open" => c = dbInstance

\* C6: getSurrealDB, and so the SurrealService constructor, fails with the
\* not-initialized error in every state where no initSurrealDB has completed,
\* where the last completed initSurrealDB failed, or where a closeSurrealDB has
\* completed since the last successful one, and returns the stored handle in
\* every other state; a failed initSurrealDB leaves dbInstance null and throws
\* the connection error.
C6_GetFailsUnlessInitialized ==
    /\ initState \in {"never", "failed", "closed"} => getSurrealDB = NotInitialized
    /\ initState = "ok" => (dbInstance \in ConnIds /\ getSurrealDB = Returned(dbInstance))
    /\ (cev.op = "new SurrealService" /\ initState # "ok") => cev.ret = NotInitialized
    /\ (cev.op = "new SurrealService" /\ initState = "ok") =>
           (cev.ret = Returned(dbInstance) /\ svcDb = dbInstance)
    /\ cev.op = "initSurrealDB.catch" =>
           (dbInstance = Null /\ ~isSurrealDBInitialized /\ cev.ret = ConnectionError)

\* C6 witness: an initSurrealDB failed while a handle of an earlier call was
\* stored, and a SurrealService constructed next got the not-initialized error
C6_Witness ==
    /\ cev.op = "new SurrealService"
    /\ cev.after = "initSurrealDB.catch"
    /\ initState = "failed"
    /\ cev.ret = NotInitialized
    /\ \E c \in ConnIds : conn[c] = "open"

\* C7: closeSurrealDB closes the handle it found stored and leaves dbInstance
\* null (isSurrealDBInitialized() is false when it returns); called with no
\* handle stored it returns without throwing and changes nothing; an
\* initSurrealDB that follows a completed close creates a new connection
\* object instead of returning an old handle.
C7_CloseResets ==
    /\ cev.op = "closeSurrealDB.return" =>
           (~isSurrealDBInitialized /\ cev.h \in ConnIds /\ conn[cev.h] = "closed")
    /\ (cev.op = "closeSurrealDB" /\ cev.pre # Null) => conn[cev.pre] = "closed"
    /\ (cev.op = "closeSurrealDB" /\ cev.pre = Null) =>
           (cev.ret = Void /\ dbInstance = Null /\ conn = cev.conn /\ pc[cev.caller] = "idle")
    /\ (cev.op = "initSurrealDB" /\ cev.after = "closeSurrealDB.return") =>
           /\ cev.ret = Pending
           /\ Cardinality(Created(conn)) = Cardinality(Created(cev.conn)) + 1
           /\ \E c \in Created(conn) \ Created(cev.conn) :
                  conn[c] = "connecting" /\ handle[cev.caller] = c

\* C7 witness: a close of an open stored handle returned, and the next
\* initSurrealDB started a new connection
C7_Witness ==
    /\ cev.op = "initSurrealDB"
    /\ cev.after = "closeSurrealDB.return"
    /\ cev.ret = Pending
    /\ \E c \in ConnIds : conn[c] = "closed"

----------------------------------------------------------------------------
(* Claims about single records, checked under Spec *)

\* the fields of a record, listed or not, after a mapping was written over a row
Merged(row, data, f) == IF data[f] # None THEN data[f] ELSE row[f]
Listed(data) == {i \in DOMAIN Fields : data[Fields[i]] # None}

\* C1: add/create(payload) returns a record with the payload's fields and the
\* identifier the store assigned, and a findById of that identifier that
\* follows, with no write to the record in between, returns a record with the
\* same fields and the same identifier.
C1_AddThenFindById ==
    /\ (last.op = "add" /\ last.ret.kind = "record") =>
           /\ IdString(last.ret.rec.id) = last.subj
           /\ \A i \in DOMAIN Fields : last.ret.rec[Fields[i]] = last.data[Fields[i]]
    /\ (last.op = "findById" /\ last.chain.op = "add") =>
           /\ last.ret.kind = "record"
           /\ IdString(last.ret.rec.id) = last.subj
           /\ \A i \in DOMAIN Fields : last.ret.rec[Fields[i]] = last.chain.data[Fields[i]]

\* C1 witness: the second record of the table was added and then found by the
\* identifier add returned
C1_Witness ==
    /\ last.op = "findById"
    /\ last.chain.op = "add"
    /\ last.ret.kind = "record"
    /\ last.subj = <<Table, ":", KeyName(2)>>
    /\ store[Table][1].live
    /\ store[Table][1].name # last.ret.rec.name

\* C2: for an existing record and a mapping of one field, update(id, {field: v})
\* returns the record, changes no other record of the table, and a findById(id)
\* that follows returns the record with field = v and every other field as it
\* was before the update.
C2_UpdateKeepsOtherFields ==
    /\ (last.op = "update" /\ last.pre.live /\ Cardinality(Listed(last.data)) = 1) =>
           /\ last.ret.kind = "record"
           /\ last.changed \subseteq {KeyOf(last.subj[3])}
    /\ (/\ last.op = "findById"
        /\ last.chain.op = "update"
        /\ last.chain.pre.live
        /\ Cardinality(Listed(last.chain.data)) = 1) =>
           /\ last.ret.kind = "record"
           /\ \A i \in DOMAIN Fields :
                  last.ret.rec[Fields[i]] = Merged(last.chain.pre, last.chain.data, Fields[i])

\* C3 (as amended): delete(id) of an existing record returns true and removes
\* it, a findById(id) that follows returns null, and a second delete(id), of
\* the record now missing, returns true again, throws nothing and changes
\* nothing.
C3_DeleteThenFindById ==
    /\ (last.op = "delete" /\ last.pre.live) =>
           (last.ret = RetBool(TRUE) /\ ~RowAt(store, last.subj).live)
    /\ (last.op = "findById" /\ last.chain.op = "delete") => last.ret.kind = "null"
    /\ (last.op = "delete" /\ last.chain.op = "delete") =>
           (last.ret = RetBool(TRUE) /\ last.changed = {})

\* C3 witness: a record was deleted, looked up, and deleted a second time
C3_Witness ==
    /\ last.op = "delete"
    /\ last.chain.op = "delete"
    /\ last.chain.pre.live
    /\ ~last.pre.live
    /\ last.ret = RetBool(TRUE)

\* C3 (as stated): delete(id) of an existing record returns true, a
\* findById(id) that follows returns null, and a second delete(id) returns
\* false and does not throw.
C3_SecondDeleteFalse ==
    /\ (last.op = "delete" /\ last.pre.live) => last.ret = RetBool(TRUE)
    /\ (last.op = "findById" /\ last.chain.op = "delete") => last.ret.kind = "null"
    /\ (last.op = "delete" /\ last.chain.op = "delete") => last.ret = RetBool(FALSE)

\* C12: upsert(id, data) with no record of that id creates exactly one record,
\* with the fields of data, under the key the store assigns (not the id
\* argument), and returns it; with a record of that id it updates that record
\* with the listed fields, returns it, and adds no record.
C12_UpsertCreatesOrUpdates ==
    /\ (last.op = "upsert" /\ ~last.pre.live) =>
           /\ last.ret.kind = "record"
           /\ last.changed = {KeyOf(last.subj[3])}
           /\ RowAt(store, last.subj) = Row(last.data)
           /\ IdString(last.ret.rec.id) = last.subj
           /\ \A i \in DOMAIN Fields : last.ret.rec[Fields[i]] = last.data[Fields[i]]
    /\ (last.op = "upsert" /\ last.pre.live /\ Listed(last.data) # {}) =>
           /\ last.ret.kind = "record"
           /\ IdString(last.ret.rec.id) = last.subj
           /\ last.subj = RecordIdOf(last.id)
           /\ last.changed \subseteq {KeyOf(last.subj[3])}
           /\ RowAt(store, last.subj).live
           /\ \A i \in Listed(last.data) :
                  /\ RowAt(store, last.subj)[Fields[i]] = last.data[Fields[i]]
                  /\ last.ret.rec[Fields[i]] = last.data[Fields[i]]

\* C12 witness: upsert of the well-formed id of a missing record created a
\* record under another key
C12_Witness ==
    /\ last.op = "upsert"
    /\ ~last.pre.live
    /\ IsRecordId(RecordIdOf(last.id))
    /\ last.subj # RecordIdOf(last.id)
    /\ last.ret.kind = "record"
    /\ RowAt(store, last.subj).live
    /\ ~RowAt(store, RecordIdOf(last.id)).live

----------------------------------------------------------------------------
(* Claims about selections and pages, checked under SpecQuery, SpecPage and *)
(* SpecCount *)

\* the number of records in the table
N == Cardinality(Live(store, Table))
Min(a, b) == IF a < b THEN a ELSE b
Max(a, b) == IF a > b THEN a ELSE b

\* C8: for a table of N records, page >= 1 and pageSize >= 1,
\* paginate(page, pageSize) returns min(pageSize, max(0, N - (page-1)*pageSize))
\* records, total = N, totalPages = ceil(N / pageSize), and page and pageSize
\* as passed.
C8_PaginateFormula ==
    (last.op = "paginate" /\ last.args.page >= 1 /\ last.args.pageSize >= 1) =>
        /\ last.ret.kind = "page"
        /\ Len(last.ret.list) =
               Min(last.args.pageSize, Max(0, N - (last.args.page - 1) * last.args.pageSize))
        /\ last.ret.num = N
        /\ last.ret.pg.totalPages = JsInt((N + last.args.pageSize - 1) \div last.args.pageSize)
        /\ last.ret.pg.page = last.args.page
        /\ last.ret.pg.pageSize = last.args.pageSize

\* C9: every result paginate of src/models/db/surreal.ts returns, whatever page
\* and pageSize were passed, has at most pageSize records, and totalPages = 0
\* when total = 0.
C9_PaginateResultInvariant ==
    (impl = "db" /\ last.op = "paginate" /\ last.ret.kind = "page") =>
        /\ Len(last.ret.list) <= last.args.pageSize
        /\ last.ret.num = 0 => last.ret.pg.totalPages = JsInt(0)

\* the records of the table whose every listed field has the given value
Expected(conditions) ==
    {k \in Live(store, Table) :
        \A i \in Listed(conditions) : store[Table][k][Fields[i]] = conditions[Fields[i]]}

\* C10: for every table state and every mapping, findBy(mapping) of
\* src/models/db/surreal.ts returns exactly the records of the table whose every
\* listed field equals the given value, each once.
C10_FindByExactMatch ==
    (impl = "db" /\ last.op = "findBy") =>
        /\ last.ret.kind = "list"
        /\ Len(last.ret.list) = Cardinality(Expected(last.data))
        /\ {IdString(last.ret.list[i].id) : i \in DOMAIN last.ret.list}
               = {<<Table, ":", KeyName(k)>> : k \in Expected(last.data)}

\* C11: in every table state that add, update, delete, deleteAll and deleteBy
\* lead to, count() of src/models/db/surreal.ts returns the length of findAll(),
\* and count(conditions) returns the length of findBy(conditions), failing
\* exactly when findBy fails.
C11_CountMatchesFind ==
    /\ (impl = "db" /\ last.op = "count") =>
           /\ last.ret.kind = "number"
           /\ findAll(store, TRUE).ret.kind = "list"
           /\ last.ret.num = Len(findAll(store, TRUE).ret.list)
    /\ (impl = "db" /\ last.op = "countBy") =>
           IF findBy(store, last.data, OK).ret.kind = "list"
           THEN /\ last.ret.kind = "number"
                /\ last.ret.num = Len(findBy(store, last.data, OK).ret.list)
           ELSE last.ret.kind = "threw"

\* C11 witness: a condition counted one of the two records of the table
C11_Witness ==
    /\ impl = "db"
    /\ last.op = "countBy"
    /\ last.ret.num = 1
    /\ N = 2

----------------------------------------------------------------------------
(* Claims about condition triples, checked under SpecCond *)

\* what a LIKE pattern asks of a string x, by the wildcards at its ends
LikeMeans(pattern, x) ==
    LET leading == Len(pattern) >= 1 /\ Head(pattern) = "%"
        trailing == Len(pattern) >= 1 /\ pattern[Len(pattern)] = "%"
    IN  CASE leading /\ trailing -> Contains(x, SubSeq(pattern, 2, Len(pattern) - 1))
          [] leading /\ ~trailing -> EndsWith(x, SubSeq(pattern, 2, Len(pattern)))
          [] trailing /\ ~leading -> StartsWith(x, SubSeq(pattern, 1, Len(pattern) - 1))
          [] OTHER -> x = pattern

\* what a triple asks of a row: no operator is '=', IN and NOT IN take the
\* values of an array or the one value given
TripleMeans(t, row) ==
    LET x == row[t.field]
        vs == {t.value.items[i] : i \in DOMAIN t.value.items}
    IN  CASE t.operator = "LIKE" -> LikeMeans(t.value.items[1].cs, x.cs)
          [] t.operator \in {"", "="} -> x = t.value.items[1]
          [] t.operator = "!=" -> x # t.value.items[1]
          [] t.operator = ">" -> x.n > t.value.items[1].n
          [] t.operator = ">=" -> x.n >= t.value.items[1].n
          [] t.operator = "<" -> x.n < t.value.items[1].n
          [] t.operator = "<=" -> x.n <= t.value.items[1].n
          [] t.operator = "IN" -> x \in vs
          [] t.operator = "NOT IN" -> x \notin vs

\* the ids of the records a call returned
ReturnedIds == {IdString(last.ret.list[i].id) : i \in DOMAIN last.ret.list}

\* C13: findBy with one LIKE triple returns exactly the records whose field
\* contains the inner text (pattern wildcarded at both ends), ends with the
\* rest (leading '%' only), starts with the rest (trailing '%' only) or equals
\* the whole pattern (no wildcard at either end), for every pattern, "%" and
\* the empty pattern included.
C13_LikeTranslation ==
    (/\ last.op = "findByArray"
     /\ client = "legacy" \/ impl = "db"
     /\ Len(last.conds) = 1
     /\ last.conds[1].operator = "LIKE") =>
        /\ last.ret.kind = "list"
        /\ Len(last.ret.list) = Cardinality(ReturnedIds)
        /\ ReturnedIds =
               {<<Table, ":", KeyName(k)>> : k \in
                   {j \in Live(store, Table) :
                       LikeMeans(last.conds[1].value.items[1].cs, store[Table][j].name.cs)}}

\* C13 witness: the pattern "%" alone selected both records of the table
C13_Witness ==
    /\ last.op = "findByArray"
    /\ Len(last.conds) = 1
    /\ last.conds[1].operator = "LIKE"
    /\ last.conds[1].value.items[1].cs = <<"%">>
    /\ N = 2
    /\ Len(last.ret.list) = 2

\* C14: findBy with a list of one or more triples returns exactly the records
\* that satisfy every triple of the list: one predicate per triple, joined by AND, a missing
\* operator read as '=', and the value of IN and NOT IN taken as a list whether
\* or not it was given as one.
C14_TriplesJoinedByAnd ==
    (/\ last.op = "findByArray"
     /\ client = "legacy" \/ impl = "db"
     /\ Len(last.conds) >= 1) =>
        /\ last.ret.kind = "list"
        /\ Len(last.ret.list) = Cardinality(ReturnedIds)
        /\ ReturnedIds =
               {<<Table, ":", KeyName(k)>> : k \in
                   {j \in Live(store, Table) :
                       \A i \in DOMAIN last.conds : TripleMeans(last.conds[i], store[Table][j])}}

\* C14 witness: two triples, one without operator and one IN with a single
\* value, selected fewer records than either would alone
C14_Witness ==
    /\ last.op = "findByArray"
    /\ Len(last.conds) = 2
    /\ last.conds[1].operator = ""
    /\ last.conds[2].operator = "IN"
    /\ ~last.conds[2].value.isArray
    /\ N = 2
    /\ last.ret.kind = "list"
    /\ Len(last.ret.list) = 0

----------------------------------------------------------------------------
(* Claims about failures, checked under SpecFail *)

\* the call was one of findBy, findOne and existsBy
SelectedByCondition == last.op \in {"findBy", "findOne", "existsBy"}

C16_DeleteFalseOnFailure ==
    last.op = "delete" =>
        /\ last.ret.kind = "boolean"
        /\ last.changed # {} => last.ret.flag
        /\ (last.answer # OK \/ last.id = NoId) => (~last.ret.flag /\ last.changed = {})

----------------------------------------------------------------------------
(* Claims about update, checked under Spec *)

\* the update sent a statement the store can parse: the utils copy always, the
\* db copy when the mapping lists a field
Parsable == impl = "utils" \/ ~IsEmpty(last.data)

----------------------------------------------------------------------------
(* Claims about batch calls, checked under SpecBatch *)

\* the members of the batch in a given state
Members(state) == {i \in DOMAIN batch.state : batch.state[i] = state}

\* the row of the record that member i returned
RowOf(i) == RowAt(store, IdString(batch.results[i].id))

\* member i's write is in the store: the record added with its payload, or
\* the record updated holding the fields given
Committed(i) ==
    IF batch.op = "addMany"
    THEN RowOf(i).live /\ \A f \in DOMAIN Fields : RowOf(i)[Fields[f]] = batch.payloads[i][Fields[f]]
    ELSE /\ RowAt(store, RecordIdOf(batch.ids[i])).live
         /\ \A f \in Listed(batch.data) :
                RowAt(store, RecordIdOf(batch.ids[i]))[Fields[f]] = batch.data[Fields[f]]

\* C19: addMany / createMany and updateMany start all their members before any
\* has completed; the batch call fails exactly when a member fails, with the
\* error of the member that failed first and without a list of results; and
\* the write of every member that succeeded, before or after the failure,
\* stays in the store.
C19_BatchNotAtomic ==
    batch.op # "none" =>
        /\ batch.order = <<>> => Members("pending") = DOMAIN batch.state
        /\ batch.outcome = "rejected" <=> Members("failed") # {}
        /\ batch.outcome = "rejected" =>
               /\ batch.ret.kind = "threw"
               /\ \E n \in DOMAIN batch.order :
                      /\ batch.ret = batch.errors[batch.order[n]]
                      /\ \A m \in 1..(n - 1) : batch.state[batch.order[m]] = "ok"
        /\ \A i \in Members("ok") : Committed(i)

\* C19 witness: an addMany whose first member to complete failed and whose
\* other member was added after that
C19_Witness ==
    /\ batch.op = "addMany"
    /\ batch.outcome = "rejected"
    /\ Len(batch.order) = 2
    /\ batch.state[batch.order[1]] = "failed"
    /\ batch.state[batch.order[2]] = "ok"
    /\ Committed(batch.order[2])

\* C20: when every member add has succeeded, addMany / createMany returns one
\* record per payload and the record at index i is the one added from the
\* payload at index i, whatever the order in which the adds completed.
C20_AddManyKeepsOrder ==
    (batch.op = "addMany" /\ batch.outcome = "resolved") =>
        /\ batch.ret.kind = "list"
        /\ Len(batch.ret.list) = Len(batch.payloads)
        /\ \A i \in DOMAIN batch.ret.list :
               /\ batch.ret.list[i].found
               /\ batch.ret.list[i].name = batch.payloads[i].name
               /\ batch.ret.list[i].age = batch.payloads[i].age
               /\ RowAt(store, IdString(batch.ret.list[i].id)).live
        /\ \A i, j \in DOMAIN batch.ret.list :
               batch.ret.list[i].id = batch.ret.list[j].id => i = j

\* C20 witness: two different payloads whose adds completed second one first
C20_Witness ==
    /\ batch.op = "addMany"
    /\ batch.outcome = "resolved"
    /\ batch.order = <<2, 1>>
    /\ batch.payloads[1] # batch.payloads[2]
    /\ batch.ret.list[1].name = batch.payloads[1].name

----------------------------------------------------------------------------
(* Claims about identifiers, checked under SpecIdent *)

\* the step is a call of update, updateMany, updateBy or an instance's update()
UpdateStep ==
    /\ last' # last
    /\ last'.op \in {"update", "updateMany", "updateBy", "modelUpdate"}

\* a record returned by the step carries the id of a record the table held
\* before the step and holds now, with the fields it has now
SameRecord(rec) ==
    /\ rec.found
    /\ IsRecordId(IdString(rec.id))
    /\ RowAt(store, IdString(rec.id)).live
    /\ RowAt(store', IdString(rec.id)).live
    /\ rec.name = RowAt(store', IdString(rec.id)).name
    /\ rec.age = RowAt(store', IdString(rec.id)).age

\* C18: no call of update, updateMany, updateBy or of an Active-Record
\* instance's update(), whose payload carries the instance's id, changes the
\* identifier of a record: the table holds records under the same identifiers
\* after the call as before, and every record returned carries the identifier
\* of the record it was read from, which for update and update() is the one
\* the call was given.
C18_IdNeverChanges ==
    [][UpdateStep =>
          /\ Live(store', Table) = Live(store, Table)
          /\ last'.op \in {"update", "modelUpdate"} =>
                 \A k \in last'.changed : <<Table, ":", KeyName(k)>> = last'.subj
          /\ last'.ret.kind = "record" =>
                 (SameRecord(last'.ret.rec) /\ IdString(last'.ret.rec.id) = last'.subj)
          /\ last'.ret.kind = "list" =>
                 \A i \in DOMAIN last'.ret.list : SameRecord(last'.ret.list[i])]_vars

\* C18 witness: an instance's update() changed its record and returned the
\* instance with the id it had
C18_Witness ==
    /\ last.op = "modelUpdate"
    /\ last.ret.kind = "record"
    /\ last.changed # {}
    /\ IdString(last.ret.rec.id) = last.subj
    /\ last.ret.rec.id = last.id

----------------------------------------------------------------------------
(* deleteMany, and the claim about it, checked under SpecDeleteMany *)

\* deleteMany: member i, this.delete(ids[i]), completes; delete never throws,
\* so the member's promise is fulfilled with the boolean it returned
deleteMany_member(st, b, i, ok) ==
    LET done == IF impl = "db" THEN delete(st, b.ids[i], ok) ELSE delete_utils(st, b.ids[i], ok)
    IN  [store |-> done.store,
         batch |-> [PromiseAll_fulfil(b, i, NoRecord) EXCEPT !.flags[i] = done.ret.flag]]

\* deleteMany: true after the await of Promise.all, false from the catch
deleteMany_return(b) == IF b.outcome = "rejected" THEN RetBool(FALSE) ELSE RetBool(TRUE)

\* the members of deleteMany complete in the given order, member i with the
\* answer answers[i] of the store
RECURSIVE deleteMany_run(_, _, _, _, _)
deleteMany_run(st, b, order, answers, n) ==
    IF n > Len(order) THEN [store |-> st, batch |-> b]
    ELSE LET step == CHOOSE s \in {deleteMany_member(st, b, order[n], answers[order[n]])} : TRUE
         IN  deleteMany_run(step.store, step.batch, order, answers, n + 1)

\* deleteMany(ids) from its call to the completion of its last member, with
\* no other call in between
DeleteMany(ids, order, answers) ==
    /\ LET b == [op |-> "deleteMany", payloads |-> <<>>, ids |-> ids, data |-> NoData]
                    @@ PromiseAll(Len(ids))
       IN  \E run \in {deleteMany_run(store, b, order, answers, 1)} :
               /\ store' = run.store
               /\ batch' = run.batch
               /\ last' = Call("deleteMany", NoId, NoData, <<>>,
                               Done(deleteMany_return(run.batch), run.store))
    /\ UNCHANGED <<connVars, inflight, client, impl>>

\* the id lists passed to deleteMany: ids of records and the empty string
DeleteIds == {StrId(<<Table, ":", KeyName(k)>>) : k \in Keys} \cup {NoId}
DeleteIdLists == UNION {[1..n -> DeleteIds] : n \in 0..MaxBatch}

DeleteManyNext ==
    \/ \E k \in Keys : Add([name |-> Str("a"), age |-> Num(25)], k, TRUE)
    \/ \E ids \in DeleteIdLists : \E order \in Orders(Len(ids)) :
           \E answers \in [1..Len(ids) -> Answers] : DeleteMany(ids, order, answers)

\* one connected service that adds records and deletes them in batches whose
\* member statements the store may fail
SpecDeleteMany == Init /\ [][DeleteManyNext]_vars

\* member i of the last deleteMany addressed the record under key k
Addressed(i, k) == RecordIdOf(batch.ids[i]) = <<Table, ":", KeyName(k)>>

\* C21: deleteMany(ids) returns true although member deletes returned false;
\* the records of the members whose delete returned true are removed, and the
\* other records remain.
C21_DeleteManySwallows ==
    last.op = "deleteMany" =>
        /\ last.ret = RetBool(TRUE)
        /\ \A k \in AllKeys :
               (store[Table][k].live \/ k \in last.changed) =>
                   (k \in last.changed <=> \E i \in DOMAIN batch.ids : batch.flags[i] /\ Addressed(i, k))

\* C21, first half: deleteMany returns true whatever its members returned
C21_ReturnsTrue == last.op = "deleteMany" => last.ret = RetBool(TRUE)

----------------------------------------------------------------------------
(* The claim about deleteBy, checked under SpecCount *)

\* C22: deleteBy(conditions) returns the number of records it removed, the
\* number that matched the conditions before the call, whether the client
\* delivers the result wrapped in a `result` field or as a bare array.
C22_DeleteByCountsRemoved ==
    (last.op = "deleteBy" /\ ~IsEmpty(last.data)) =>
        /\ last.ret.kind = "number"
        /\ last.ret.num = Cardinality(last.changed)

----------------------------------------------------------------------------
(* exists, and the claim about findById and exists, checked under SpecFind *)

\* exists (both copies): record !== null for the record findById returns
exists_of(done) == Done(RetBool(done.ret.kind # "null"), done.store)
exists(st, id, ok) == exists_of(findById(st, id, ok))
exists_utils(st, id, ok) == exists_of(findById_utils(st, id, ok))

Exists(id, ok) ==
    /\ LET done == IF impl = "db" THEN exists(store, id, ok) ELSE exists_utils(store, id, ok)
       IN  /\ store' = done.store
           /\ last' = [Call("exists", id, NoData, RecordIdOf(id), done)
                           EXCEPT !.answer = IF ok THEN OK ELSE Rejected]
    /\ UNCHANGED <<connVars, inflight, client, impl, batch>>

\* the ids passed to findById and exists: those of IdArgs, the id of a record
\* that was never added, an id without a key, an id without a table, and the
\* id of another table used by the test of exists
FindIds ==
    IdArgs \cup {StrId(<<Table, ":", KeyName(MaxKeys + 1)>>), StrId(<<Table, ":">>),
                 StrId(<<":", KeyName(1)>>), StrId(<<"test_user", ":", "non_existent">>)}

FindNext ==
    \/ \E k \in Keys : Add([name |-> Str("a"), age |-> Num(25)], k, TRUE)
    \/ \E k \in Keys : Delete(StrId(<<Table, ":", KeyName(k)>>), OK)
    \/ \E id \in FindIds, ok \in BOOLEAN : FindById(id, ok)
    \/ \E id \in FindIds, ok \in BOOLEAN : Exists(id, ok)

\* one connected service reading single records by well-formed and malformed
\* ids from a store that may fail the read
SpecFind == Init /\ [][FindNext]_vars

\* the statement's record id the spec gives for an id argument: the id itself
\* if it contains ':', else the table's name, ':' and the id
Normalized(id) ==
    IF \E i \in DOMAIN IdString(id) : IdString(id)[i] = ":" THEN IdString(id)
    ELSE <<Table, ":">> \o IdString(id)

\* a record is stored under the normalized id
Stored(id) == RowAt(store, Normalized(id)).live

\* C23: findById and exists never throw and change nothing. findById(id)
\* returns the record stored under the normalized id (`<table>:<key>` for a
\* bare key, the id itself if it contains ':') when the store answers the read
\* and there is such a record, and null for an empty, malformed or missing id
\* and for a failed store call; exists(id) is true exactly when findById(id)
\* returns a record.
C23_FindByIdNeverThrows ==
    last.op \in {"findById", "exists"} =>
        /\ last.ret.kind # "threw"
        /\ last.changed = {}
        /\ last.op = "findById" =>
               IF Stored(last.id) /\ last.answer = OK
               THEN /\ last.ret.kind = "record"
                    /\ IdString(last.ret.rec.id) = Normalized(last.id)
                    /\ \A i \in DOMAIN Fields :
                           last.ret.rec[Fields[i]] = RowAt(store, Normalized(last.id))[Fields[i]]
               ELSE last.ret.kind = "null"
        /\ last.op = "exists" => last.ret = RetBool(Stored(last.id) /\ last.answer = OK)

\* C23 witness: exists was true for a stored record addressed by its bare key
\* while another record was stored
C23_Witness ==
    /\ last.op = "exists"
    /\ last.id = StrId(<<KeyName(1)>>)
    /\ last.ret = RetBool(TRUE)
    /\ store[Table][2].live

----------------------------------------------------------------------------
(* Active-Record instances, and the claims about them, checked under SpecModel *)

\* add() on an instance; the store creates the record under key k
ModelAdd(this, k, ok) ==
    /\ impl = "db"
    /\ ~store[Table][k].live
    /\ LET done == BaseModel_add(store, this, k, ok)
       IN  /\ store' = done.store
           /\ last' = [Call("modelAdd", this.id, toJSON(this),
                            IF done.ret.kind = "record" THEN <<Table, ":", KeyName(k)>> ELSE <<>>,
                            done)
                           EXCEPT !.answer = IF ok THEN OK ELSE Rejected,
                                  !.inst = InstanceAfter(this, done)]
    /\ UNCHANGED <<connVars, inflight, client, impl, batch>>

ModelDelete(this, ok) ==
    /\ impl = "db"
    /\ LET done == BaseModel_delete(store, this, ok)
       IN  /\ store' = done.store
           /\ last' = [Call("modelDelete", this.id, [name |-> this.name, age |-> this.age],
                            RecordIdOf(this.id), done)
                           EXCEPT !.answer = ok, !.inst = InstanceAfter(this, done)]
    /\ UNCHANGED <<connVars, inflight, client, impl, batch>>

\* instances made by `new User(form)`: no id yet
NewInstances == {[_service |-> Null, id |-> NoId, name |-> m.name, age |-> m.age] : m \in AddPayloads}

ModelNext ==
    \/ \E k \in Keys : Add([name |-> Str("a"), age |-> Num(25)], k, TRUE)
    \/ \E this \in NewInstances, k \in Keys, ok \in BOOLEAN : ModelAdd(this, k, ok)
    \/ \E this \in Instances, ok \in BOOLEAN : ModelUpdate(this, ok)
    \/ \E this \in Instances, ok \in Answers : ModelDelete(this, ok)

\* one connected service and Active-Record instances with and without id,
\* whose calls the store may fail
SpecModel == Init /\ [][ModelNext]_vars

\* the last call was made on an instance that has no id
OnIdless(op) == last.op = op /\ last.id = NoId

\* the instance has the fields it had before the last call
InstanceUntouched ==
    /\ last.inst.id = last.id
    /\ \A i \in DOMAIN Fields : last.inst[Fields[i]] = last.data[Fields[i]]

\* C24: on an instance without id, update() fails with the invalid-state error
\* and delete() returns false, whatever the store would answer; the table and
\* the instance's fields are as they were.
C24_NoIdNoRequest ==
    /\ OnIdless("modelUpdate") =>
           /\ last.ret = Threw("NoId")
           /\ last.changed = {}
           /\ InstanceUntouched
    /\ OnIdless("modelDelete") =>
           /\ last.ret = RetBool(FALSE)
           /\ last.changed = {}
           /\ InstanceUntouched

\* C24 witness: update() on an instance without id failed while the table held
\* a record and the store would have answered
C24_Witness ==
    /\ OnIdless("modelUpdate")
    /\ last.answer = OK
    /\ last.ret.kind = "threw"
    /\ N > 0

\* C25: the payload of add() holds the instance's id and public fields only.
\* After a successful add() the instance's id is the identifier of the record
\* the store created and its public fields are that record's fields; after a
\* failed add() or update() the instance's fields are as they were.
C25_AddMergesResult ==
    /\ last.op = "modelAdd" =>
           /\ DOMAIN last.data = {"id"} \cup {Fields[i] : i \in DOMAIN Fields}
           /\ IF last.answer = OK
              THEN /\ last.ret.kind = "record"
                   /\ last.ret.rec = last.inst
                   /\ \E k \in AllKeys :
                          /\ last.changed = {k}
                          /\ IdString(last.inst.id) = <<Table, ":", KeyName(k)>>
                          /\ store[Table][k].live
                          /\ \A i \in DOMAIN Fields : last.inst[Fields[i]] = store[Table][k][Fields[i]]
              ELSE /\ last.ret.kind = "threw"
                   /\ last.changed = {}
                   /\ InstanceUntouched
    /\ (last.op = "modelUpdate" /\ last.ret.kind = "threw") => InstanceUntouched

\* C25 witness: add() on a new instance created the second record of the
\* table, and the instance has that record's id
C25_Witness ==
    /\ last.op = "modelAdd"
    /\ last.id = NoId
    /\ last.ret.kind = "record"
    /\ IdString(last.inst.id) = <<Table, ":", KeyName(2)>>
    /\ store[Table][1].live

----------------------------------------------------------------------------
(* upsert step by step, and the claim about it, checked under SpecRace *)

\* the callers other than p that are inside a call
Others(p) == {q \in Callers : q # p /\ inflight[q].pc = "checked"}

\* upsert, first await: const existing = await this.findById(id)
upsert_findById(p, id, data) ==
    /\ inflight[p].pc # "checked"
    /\ LET existing == IF impl = "db" THEN findById(store, id, TRUE)
                       ELSE findById_utils(store, id, TRUE)
       IN  inflight' = [inflight EXCEPT ![p] =
                           [NoFlight EXCEPT !.op = "upsert", !.pc = "checked", !.id = id,
                                            !.data = data, !.with = Others(p),
                                            !.existing = existing.ret.kind = "record"]]
    /\ UNCHANGED <<connVars, client, impl, store, last, batch>>

\* upsert, second await: this.update(id, data) if existing, else
\* this.add({...data}); an error of either is logged and thrown again
upsert_write(p, k) ==
    /\ inflight[p].op = "upsert"
    /\ inflight[p].pc = "checked"
    /\ ~store[Table][k].live
    /\ LET id == inflight[p].id
           data == inflight[p].data
           done == CASE inflight[p].existing /\ impl = "db" -> update(store, id, data, TRUE)
                     [] inflight[p].existing /\ impl = "utils" -> update_utils(store, id, data, TRUE)
                     [] ~inflight[p].existing /\ impl = "db" -> add(store, data, k, TRUE)
                     [] OTHER -> create(store, data, k, TRUE)
       IN  /\ store' = done.store
           /\ last' = Call("upsert", id, data,
                           IF inflight[p].existing THEN RecordIdOf(id) ELSE <<Table, ":", KeyName(k)>>,
                           done)
           /\ inflight' = [inflight EXCEPT ![p].pc = "done", ![p].kind = done.ret.kind]
    /\ UNCHANGED <<connVars, client, impl, batch>>

RaceNext ==
    \/ \E k \in Keys : Add([name |-> Str("a"), age |-> Num(25)], k, TRUE)
    \/ \E k \in Keys : Delete(StrId(<<Table, ":", KeyName(k)>>), OK)
    \/ \E p \in Callers :
           upsert_findById(p, StrId(<<Table, ":", KeyName(1)>>), [name |-> Str("b"), age |-> None])
    \/ \E p \in Callers, k \in Keys : upsert_write(p, k)

\* callers whose upserts, adds and deletes interleave at every await; the
\* store answers every statement
SpecRace == Init /\ [][RaceNext]_vars

\* C26: an upsert completes by returning a record whatever other calls run
\* between its findById and its write; it never fails with the not-found
\* error of update.
C26_UpsertSurvivesInterleaving ==
    \A p \in Callers :
        (inflight[p].op = "upsert" /\ inflight[p].pc = "done") => inflight[p].kind = "record"

\* C26, second half: two upserts of the same missing id that overlap do not
\* both create a record.
C26_NoDoubleCreate ==
    \A p, q \in Callers :
        ~ /\ p \in inflight[q].with
          /\ inflight[p].pc = "done" /\ inflight[q].pc = "done"
          /\ inflight[p].id = inflight[q].id
          /\ ~inflight[p].existing /\ ~inflight[q].existing
          /\ inflight[p].kind = "record" /\ inflight[q].kind = "record"

----------------------------------------------------------------------------
(* paginate step by step, and the claim about it, checked under SpecPageRace *)

\* paginate, the rows read from the answer to the data query
paginate_data(st, page, pageSize) ==
    LET firstResult == Response(SelectPage(st, NoConditions, pageSize, (page - 1) * pageSize))
    IN  IF HasResult(firstResult) THEN firstResult.rows
        ELSE IF impl = "db" /\ IsArray(firstResult) THEN firstResult.rows ELSE <<>>

\* paginate called: both requests of its Promise.all are on their way
paginate_call(p, page, pageSize) ==
    /\ inflight[p].pc # "checked"
    /\ inflight' = [inflight EXCEPT ![p] =
                        [NoFlight EXCEPT !.op = "paginate", !.pc = "checked",
                                         !.args = [page |-> page, pageSize |-> pageSize]]]
    /\ UNCHANGED <<connVars, client, impl, store, last, batch>>

\* Promise.all of paginate: with both results in, the PaginateResult is built
\* and returned
paginate_return(p, flight) ==
    IF flight.got = {"data", "count"}
    THEN /\ inflight' = [inflight EXCEPT ![p] = [flight EXCEPT !.pc = "done"]]
         /\ last' = [Call("paginate", NoId, NoData, <<>>,
                          Done(PageOf(flight.list, flight.num, flight.args.page,
                                      flight.args.pageSize), store))
                         EXCEPT !.args = flight.args]
    ELSE /\ inflight' = [inflight EXCEPT ![p] = flight]
         /\ UNCHANGED last

\* the store answers the data query of caller p's paginate
paginate_dataResult(p) ==
    /\ inflight[p].op = "paginate" /\ inflight[p].pc = "checked"
    /\ "data" \notin inflight[p].got
    /\ paginate_return(p, [inflight[p] EXCEPT
                              !.got = @ \cup {"data"},
                              !.list = paginate_data(store, inflight[p].args.page,
                                                     inflight[p].args.pageSize)])
    /\ UNCHANGED <<connVars, client, impl, store, batch>>

\* the store answers the query of this.count() of caller p's paginate
paginate_countResult(p) ==
    /\ inflight[p].op = "paginate" /\ inflight[p].pc = "checked"
    /\ "count" \notin inflight[p].got
    /\ paginate_return(p, [inflight[p] EXCEPT
                              !.got = @ \cup {"count"},
                              !.num = IF impl = "db" THEN count(store, NoConditions, TRUE).num
                                      ELSE count_utils(store, NoConditions, TRUE).num])
    /\ UNCHANGED <<connVars, client, impl, store, batch>>

\* the caller that pages; the adds and deletes are the other callers'
Pager == CHOOSE p \in Callers : TRUE

PageRaceNext ==
    \/ \E k \in Keys : Add(PagePayload, k, TRUE)
    \/ \E k \in Keys : Delete(StrId(<<Table, ":", KeyName(k)>>), OK)
    \/ \E page \in 1..MaxKeys, pageSize \in 1..MaxKeys : paginate_call(Pager, page, pageSize)
    \/ paginate_dataResult(Pager)
    \/ paginate_countResult(Pager)

\* a caller paging through the table while records are added and deleted
\* between the two answers its paginate waits for
SpecPageRace == Init /\ [][PageRaceNext]_vars

\* C27: a page of src/models/db/surreal.ts that holds records, asked for with
\* page >= 1 and pageSize >= 1, satisfies
\* (page - 1) * pageSize + data.length <= total, whatever adds and deletes ran
\* while paginate waited for its two answers.
C27_PageWithinTotal ==
    (/\ impl = "db"
     /\ last.op = "paginate"
     /\ last.ret.kind = "page"
     /\ last.args.page >= 1 /\ last.args.pageSize >= 1
     /\ Len(last.ret.list) > 0) =>
        (last.args.page - 1) * last.args.pageSize + Len(last.ret.list) <= last.ret.num

----------------------------------------------------------------------------
(* The claim about a service's handle, checked under SpecConn *)

\* C28: whenever the connection manager is initialized and no call of it is
\* under way, the handle a constructed service sends its requests on is the
\* handle getSurrealDB() returns, and it is open.
C28_ServiceOnCurrentHandle ==
    (isSurrealDBInitialized /\ Quiescent /\ svcDb # Null) =>
        /\ getSurrealDB = Returned(svcDb)
        /\ conn[svcDb] = "open"

----------------------------------------------------------------------------
(* The claim about the service's table, checked under SpecTables *)

\* a table of the database other than the service's
OtherTable == CHOOSE tb \in Tables : tb # Table

\* a service constructed for the other table adds a record there
AddElsewhere(data, k) ==
    /\ ~store[OtherTable][k].live
    /\ store' = Create(store, OtherTable, k, data)
    /\ UNCHANGED <<connVars, inflight, client, impl, last, batch>>

\* the ids passed to the service: the first key, bare and as `table:key` for
\* every table
CrossIds == {StrId(<<KeyName(1)>>)} \cup {StrId(<<tb, ":", KeyName(1)>>) : tb \in Tables}

TablesNext ==
    \/ \E k \in Keys : Add([name |-> Str("a"), age |-> Num(25)], k, TRUE)
    \/ AddElsewhere([name |-> Str("a"), age |-> Num(25)], 1)
    \/ \E id \in CrossIds : FindById(id, TRUE)
    \/ \E id \in CrossIds : Update(id, [name |-> Str("b"), age |-> None], TRUE)
    \/ \E id \in CrossIds, k \in Keys : Upsert(id, [name |-> Str("b"), age |-> None], k, TRUE)
    \/ \E id \in CrossIds : Delete(id, OK)

\* the service of table `user` called with ids of its own and of another
\* table, which holds records of its own
SpecTables == Init /\ [][TablesNext]_vars

\* the last call returned the record it addressed, or changed or removed it
Touched == last.ret.kind = "record" \/ RowAt(store, last.subj) # last.pre

\* C29: whatever id is passed, findById, update, upsert and delete of the
\* service read, change and remove records of the service's table only.
C29_OnlyOwnTable ==
    (/\ last.op \in {"findById", "update", "upsert", "delete"}
     /\ IsRecordId(last.subj)
     /\ last.pre.live
     /\ Touched) => last.subj[1] = Table

----------------------------------------------------------------------------
(* The claim about the form of returned ids, checked under SpecCount *)

\* the records the last call returned
ReturnedRecords ==
    IF last.ret.kind = "record" THEN {last.ret.rec}
    ELSE IF last.ret.kind \in {"list", "page"} THEN {last.ret.list[i] : i \in DOMAIN last.ret.list}
    ELSE {}

\* C30: every record that add, findById, findAll, findBy, findOne, update,
\* updateBy or paginate of src/models/db/surreal.ts returns has its id in the
\* string form `<table>:<key>`, whichever form the client delivers.
C30_IdsAreStrings ==
    (/\ impl = "db"
     /\ last.op \in {"add", "findById", "findAll", "findBy", "findOne", "update", "updateBy",
                     "paginate"}) =>
        \A r \in ReturnedRecords : r.id.form = "string" /\ IsRecordId(r.id.s)
====
